---- MODULE Spec2Model ----
(***************************************************************************)
(* Model of the asynchronous transcoding pipeline of bnema/sharm: the      *)
(* SQLite job queue (queries/jobs.sql, jobqueue.go), the media and variant *)
(* rows (queries/media.sql, queries/variants.sql, store.go), the upload    *)
(* path of MediaService.Upload and the worker loops of WorkerPool.         *)
(* Every store or queue call is one atomic step (the store has a single    *)
(* connection, db.SetMaxOpenConns(1)); the Go code between two calls works *)
(* on the goroutine's local copies, kept in wk[w] and upl.                 *)
(* A behaviour follows one upload through the pipeline.                    *)
(***************************************************************************)
EXTENDS Integers, Sequences, FiniteSets, TLC

\* ---------------------------------------------------------------- bounds
MaxTime == 2        \* last second of the clock behind datetime('now')
MaxCrashes == 1     \* process crashes (each followed by a restart)
MaxStoreErrs == 1   \* failing MediaStore.UpdateDone calls
MaxVariants == 2    \* longest Media.Variants list given to BestVariant / BestVariantForAccept
MaxParts == 2       \* most comma-separated parts of an Accept value
MaxPublish == 17    \* Publish calls of the event bus's own publisher
MaxReads == 1       \* events a subscriber receives from its channel
MaxDirectJobs == 1  \* thumbnail, probe and unknown jobs enqueued beside the convert jobs
MaxAttempts == 2    \* largest maxAttempts given to NewLoginRateLimiter
MaxClock == 5       \* last reading of the clock of the rate limiter

\* ------------------------------------------------------ program constants
NumWorkers == 2
Workers == 1..NumWorkers

NULL == 0           \* SQL NULL of started_at / completed_at
STAMP == 1          \* a started_at / completed_at set by datetime('now'); only NULL or not matters

CodecAV1 == "av1"
CodecH264 == "h264"
CodecOpus == "opus"
MediaTypeVideo == "video"
MediaTypeAudio == "audio"
JobTypeConvert == "convert"
JobTypeThumbnail == "thumbnail"
JobTypeProbe == "probe"
JobTypeOther == "resize"      \* a kind processJob does not know
ProbeDim == 3                 \* the width and height Probe reads from the file
ThumbnailError == "thumbnail: exit status 1"
ProbeError == "probe: exit status 1"
UnknownKindError(type) ==
    CASE type = JobTypeOther -> "unknown job type: resize"
      [] OTHER -> "unknown job type"

\* The upload requests: media type and the codecs of the form field, in the
\* order given. The handlers keep every av1/h264/opus entry, repeated or not.
UploadRequests ==
    { [type |-> MediaTypeVideo, codecs |-> <<>>],
      [type |-> MediaTypeVideo, codecs |-> <<CodecAV1>>],
      [type |-> MediaTypeVideo, codecs |-> <<CodecH264, CodecAV1>>],
      [type |-> MediaTypeVideo, codecs |-> <<CodecH264, CodecH264>>],
      [type |-> MediaTypeAudio, codecs |-> <<>>],
      [type |-> MediaTypeAudio, codecs |-> <<CodecOpus>>] }

Contains(s, x) == \E i \in 1..Len(s) : s[i] = x

\* ------------------------------------------------------- converter results
\* ConvertCodec writes <dir>/<id>.<ext>: the output path is a function of the
\* codec; so are the size os.Stat reports and the dimensions Probe reports.
OutputPath(codec) == <<"converted", codec>>
FileSizeOf(codec) == IF codec = CodecAV1 THEN 1 ELSE 2
DimOf(codec) == IF codec = CodecAV1 THEN 1 ELSE 2
ThumbPath == "converted/thumb.jpg"
ConvertError(codec) ==
    CASE codec = CodecAV1 -> "convert av1: exit status 1"
      [] codec = CodecH264 -> "convert h264: exit status 1"
      [] codec = CodecOpus -> "convert opus: exit status 1"
UpdateDoneError == "update media done"
AllFailedMessage == "all conversions failed"

VARIABLES
    up,        \* TRUE while the process runs (Start has returned, no crash since)
    now,       \* the clock, in seconds
    media,     \* media table: sequence of rows, index = media id
    variants,  \* media_variants table: sequence of rows, index = id
    jobs,      \* jobs table: sequence of rows, index = id
    wk,        \* per worker goroutine: position and local variables
    upl,       \* the upload handler goroutine: position and local variables
    crashes,   \* crashes so far
    storeErrs, \* failed UpdateDone calls so far
    claimed,   \* history: per job, Claim() calls that returned it since the last ResetStalled
    claimsTotal, \* history: per job, Claim() calls that returned it
    recovered, \* history: jobs that were running at the last ResetStalled
    thumbFiles, \* media ids whose <id>_thumb.jpg the converter has written
    sel,       \* a call of BestVariant / BestVariantForAccept: receiver, argument, result
    subscribers, \* EventBus.subscribers: media id -> sequence of channels (ids)
    chans,     \* the channels made by Subscribe: buffer, closed flag, events read so far
    pubCount,  \* per media id, the events its publisher has sent
    outcome,   \* history: per job, what its conversions returned so far
    ctx,       \* the workers' context and the process: live, cancelled, exited
    lk,        \* EventBus.mu and the Publish calls that hold its read lock
    limiter,   \* LoginRateLimiter.attempts and the answer of the last Check
    sse        \* the SSEHandler.Events goroutine of one connection: position and locals

vars == <<up, now, media, variants, jobs, wk, upl, crashes, storeErrs,
          claimed, claimsTotal, recovered, thumbFiles, sel, subscribers, chans,
          pubCount, outcome, ctx, lk, limiter, sse>>

extVars == <<lk, limiter, sse>>

\* ------------------------------------------------------------------ rows
NewMedia(type) ==
    [type |-> type, status |-> "pending", err |-> "", path |-> <<>>, codec |-> "",
     width |-> 0, height |-> 0, size |-> 0, thumb |-> ""]

IdleWorker == [pc |-> "idle", job |-> 0, jobrow |-> <<>>, m |-> <<>>, vs |-> <<>>,
               vid |-> 0, out |-> <<>>, err |-> ""]
StoppedWorker == [IdleWorker EXCEPT !.pc = "stopped"]
IdleUpload == [pc |-> "idle", media |-> 0, codecs |-> <<>>, i |-> 0]
NoCall == [pc |-> "none", variants |-> <<>>, accept |-> <<>>, result |-> 0]

\* The media ids events are published and subscribed for; the pipeline's
\* upload is media 1.
MediaIDs == {1, 2}

\* The live-status connections (sse.go) of a behaviour; connection c owns
\* channel c.
Connections == {1, 2}

\* ------------------------------------------------------- queries/jobs.sql
\* InsertJob: status 'pending', created_at datetime('now'), attempts 0.
InsertJob(js, mediaID, type, codec, t) ==
    Append(js, [media |-> mediaID, type |-> type, codec |-> codec, status |-> "pending",
                err |-> "", attempts |-> 0, created |-> t, started |-> NULL,
                completed |-> NULL])

\* The sub-select of ClaimNextJob: the pending job that comes first ORDER BY
\* created_at ASC LIMIT 1. created_at has one-second resolution; SQLite walks
\* idx_jobs_status in rowid order and keeps the first row of equal keys, so
\* the lowest id wins among the jobs of one second. Empty when none is pending.
Before(a, ida, b, idb) == a.created < b.created \/ (a.created = b.created /\ ida < idb)

\* Mutant: ORDER BY created_at DESC.
ClaimCandidatesNewestFirst(js) ==
    {j \in 1..Len(js) : /\ js[j].status = "pending"
                        /\ \A k \in 1..Len(js) :
                              (k # j /\ js[k].status = "pending")
                                  => Before(js[k], k, js[j], j)}

ClaimCandidates(js) ==
    {j \in 1..Len(js) : /\ js[j].status = "pending"
                        /\ \A k \in 1..Len(js) :
                              (k # j /\ js[k].status = "pending")
                                  => Before(js[j], j, js[k], k)}

\* Mutant: the UPDATE stamps the row but leaves its status.
ClaimNextJobKeepStatus(js, j) ==
    [js EXCEPT ![j] = [@ EXCEPT !.started = STAMP, !.attempts = @ + 1]]

ClaimNextJob(js, j) ==
    [js EXCEPT ![j] = [@ EXCEPT !.status = "running", !.started = STAMP,
                                !.attempts = @ + 1]]

CompleteJob(js, j) ==
    [js EXCEPT ![j] = [@ EXCEPT !.status = "done", !.completed = STAMP]]

\* Mutant: a failure counts as an attempt.
FailJobCountingAttempt(js, j, msg) ==
    [js EXCEPT ![j] = [@ EXCEPT !.status = "failed", !.err = msg, !.completed = STAMP,
                                !.attempts = @ + 1]]

FailJob(js, j, msg) ==
    [js EXCEPT ![j] = [@ EXCEPT !.status = "failed", !.err = msg, !.completed = STAMP]]

\* Mutant: the reset also clears the attempt count.
ResetStalledJobsZeroAttempts(js) ==
    [j \in 1..Len(js) |->
        IF js[j].status = "running"
        THEN [js[j] EXCEPT !.status = "pending", !.started = NULL, !.attempts = 0]
        ELSE js[j]]

\* Mutant: the reset clears started_at but leaves the status.
ResetStalledJobsKeepStatus(js) ==
    [j \in 1..Len(js) |->
        IF js[j].status = "running" THEN [js[j] EXCEPT !.started = NULL] ELSE js[j]]

\* Mutant: the reset makes failed jobs pending too.
ResetStalledJobsAndFailed(js) ==
    [j \in 1..Len(js) |->
        IF js[j].status \in {"running", "failed"}
        THEN [js[j] EXCEPT !.status = "pending", !.started = NULL]
        ELSE js[j]]

ResetStalledJobs(js) ==
    [j \in 1..Len(js) |->
        IF js[j].status = "running"
        THEN [js[j] EXCEPT !.status = "pending", !.started = NULL]
        ELSE js[j]]

\* --------------------------------------------------- queries/variants.sql
InsertVariant(vs, mediaID, codec, t) ==
    Append(vs, [media |-> mediaID, codec |-> codec, path |-> <<>>, size |-> 0,
                width |-> 0, height |-> 0, status |-> "pending", err |-> "",
                created |-> t])

UpdateVariantStatus(vs, id, status, msg) ==
    [vs EXCEPT ![id] = [@ EXCEPT !.status = status, !.err = msg]]

UpdateVariantDone(vs, id, out) ==
    [vs EXCEPT ![id] = [@ EXCEPT !.status = "done", !.path = out.path, !.size = out.size,
                                 !.width = out.width, !.height = out.height]]

\* GetVariantByMediaAndCodec: ... WHERE media_id = ? AND codec = ? LIMIT 1.
\* SQLite walks idx_variants_media_id in rowid order: the lowest matching id.
VariantsByMediaAndCodec(vs, mediaID, codec) ==
    {v \in 1..Len(vs) : /\ vs[v].media = mediaID /\ vs[v].codec = codec
                        /\ \A u \in 1..(v - 1) : ~(vs[u].media = mediaID /\ vs[u].codec = codec)}

\* ListVariantsByMedia, as the ids of the rows; the list is ORDER BY
\* created_at ASC, rows of one second in rowid order (see BestVariants).
ListVariantsByMedia(vs, mediaID) == {v \in 1..Len(vs) : vs[v].media = mediaID}

\* ------------------------------------------------------ queries/media.sql
UpdateMediaStatus(ms, id, status, msg) ==
    [ms EXCEPT ![id] = [@ EXCEPT !.status = status, !.err = msg]]

UpdateMediaDone(ms, id, m) ==
    [ms EXCEPT ![id] = [@ EXCEPT !.status = "done", !.path = m.path, !.codec = m.codec,
                                 !.width = m.width, !.height = m.height,
                                 !.thumb = m.thumb, !.size = m.size]]

\* --------------------------------------------------------- domain/media.go
\* A fetched Media is the pair (row m, variants vs) where vs maps the ids of
\* its variants to their rows as read by Store.Get.
Snapshot(mediaID) ==
    [v \in ListVariantsByMedia(variants, mediaID) |-> variants[v]]

\* Mutant: one terminal variant is enough.
SomeVariantTerminal(vs) ==
    \E v \in DOMAIN vs : vs[v].status \in {"done", "failed"}

AllVariantsTerminal(vs) ==
    \A v \in DOMAIN vs : vs[v].status \in {"done", "failed"}

HasDoneVariant(vs) ==
    \E v \in DOMAIN vs : vs[v].status = "done"

\* Mutant: the loop keeps the last done variant of the list.
LastDoneVariants(vs) ==
    {v \in DOMAIN vs : /\ vs[v].status = "done"
                       /\ \A u \in DOMAIN vs :
                             (u # v /\ vs[u].status = "done") => Before(vs[u], u, vs[v], v)}

\* BestVariant returns the first done variant of the list, that is the done
\* variant that comes first by (created_at, id); the empty set stands for nil.
BestVariants(vs) ==
    {v \in DOMAIN vs : /\ vs[v].status = "done"
                       /\ \A u \in DOMAIN vs :
                             (u # v /\ vs[u].status = "done") => Before(vs[v], v, vs[u], u)}

MarkAsDone(m, path, codec, width, height, thumb, size) ==
    [m EXCEPT !.status = "done", !.path = path, !.codec = codec, !.width = width,
              !.height = height, !.thumb = thumb, !.size = size]

\* ------------------------------------- domain/media.go: variant selection
\* Media.Variants as BestVariant and BestVariantForAccept see it: a list of
\* variants, of which codec and status matter; a result is the position of
\* the returned variant in the list, 0 for nil.
Codecs == {CodecAV1, CodecH264, CodecOpus}
VariantStatuses == {"pending", "processing", "done", "failed"}
VariantLists ==
    UNION {[1..n -> [codec : Codecs, status : VariantStatuses]] : n \in 0..MaxVariants}

\* codecMIME, a MIME type being <<type, subtype>>.
codecMIME(codec) ==
    CASE codec = CodecAV1 -> <<"video", "webm">>
      [] codec = CodecH264 -> <<"video", "mp4">>
      [] codec = CodecOpus -> <<"audio", "ogg">>

\* codecPriority (lower = preferred).
codecPriority(codec) ==
    CASE codec = CodecAV1 -> 0
      [] codec = CodecH264 -> 1
      [] codec = CodecOpus -> 2

\* An Accept value, as strings.Split(header, ",") cuts it: a non-empty
\* sequence of parts. A part is blank (empty or white space) or a media
\* range, either followed by ";q=<number>" (kind "q", q given in tenths;
\* strconv.ParseFloat also takes a negative number) or not (kind "none": no
\* parameters, or parameters that are not "q=" and a number, which leave q
\* at its default). The value "" is the single blank part.
DefaultQ == 10
BlankPart == [blank |-> TRUE, mime |-> <<"", "">>, kind |-> "none", q |-> 0]
MediaRanges == {<<"*", "*">>, <<"video", "*">>, <<"video", "webm">>,
                <<"video", "mp4">>, <<"audio", "ogg">>}
Parts ==
    {BlankPart}
    \cup {[blank |-> FALSE, mime |-> r, kind |-> "none", q |-> 0] : r \in MediaRanges}
    \cup {[blank |-> FALSE, mime |-> r, kind |-> "q", q |-> v] :
              r \in MediaRanges, v \in {-10, 0, 5}}
AcceptValues == UNION {[1..n -> Parts] : n \in 1..MaxParts}

\* strings.TrimSpace(accept) == "".
IsEmptyAccept(accept) == Len(accept) = 1 /\ accept[1].blank

\* The q of one part: 1.0 unless the parameters are "q=" and a number.
PartQ(part) == IF part.kind = "q" THEN part.q ELSE DefaultQ

\* parseAccept: the entries {mime, q} of the non-blank parts, in order.
RECURSIVE parseAccept(_)
parseAccept(parts) ==
    IF parts = <<>> THEN <<>>
    ELSE IF Head(parts).blank THEN parseAccept(Tail(parts))
    ELSE <<[mime |-> Head(parts).mime, q |-> PartQ(Head(parts))]>>
             \o parseAccept(Tail(parts))

\* Mutant: the wildcards are not understood.
MatchesExactOnly(e, mime) == e.mime = mime

\* An accept entry matches a MIME type: e.mime == "*/*" || e.mime == mime, or
\* e.mime ends in "/*" and mime starts with what precedes the "*".
Matches(e, mime) ==
    \/ e.mime = <<"*", "*">>
    \/ e.mime = mime
    \/ e.mime[2] = "*" /\ e.mime[1] = mime[1]

\* The inner loop of BestVariantForAccept: bestQ starts at -1.0 and is raised
\* by every matching entry with a larger q.
RECURSIVE BestQ(_, _, _)
BestQ(entries, mime, bestQ) ==
    IF entries = <<>> THEN bestQ
    ELSE BestQ(Tail(entries), mime,
               IF Matches(Head(entries), mime) /\ Head(entries).q > bestQ
               THEN Head(entries).q ELSE bestQ)

\* The outer loop: the candidates, in list order, from position i on.
RECURSIVE Candidates(_, _, _)
Candidates(vs, entries, i) ==
    IF i > Len(vs) THEN <<>>
    ELSE LET q == BestQ(entries, codecMIME(vs[i].codec), -10)
         IN  IF vs[i].status = "done" /\ q >= 0
             THEN <<[variant |-> i, q |-> q, prio |-> codecPriority(vs[i].codec)]>>
                      \o Candidates(vs, entries, i + 1)
             ELSE Candidates(vs, entries, i + 1)

\* The final loop: best := candidates[0], replaced by a later candidate with a
\* larger q, or the same q and a lower prio.
RECURSIVE PickBest(_, _)
PickBest(best, cs) ==
    IF cs = <<>> THEN best
    ELSE PickBest(IF Head(cs).q > best.q \/ (Head(cs).q = best.q /\ Head(cs).prio < best.prio)
                  THEN Head(cs) ELSE best,
                  Tail(cs))

\* The loop of BestVariant from position i on.
RECURSIVE FirstDone(_, _)
FirstDone(vs, i) ==
    IF i > Len(vs) THEN 0
    ELSE IF vs[i].status = "done" THEN i
    ELSE FirstDone(vs, i + 1)

\* Mutant: the loop runs to the end and keeps the last done variant.
BestVariantLastDone(vs) ==
    IF \E i \in 1..Len(vs) : vs[i].status = "done"
    THEN CHOOSE i \in 1..Len(vs) :
            /\ vs[i].status = "done"
            /\ \A k \in (i + 1)..Len(vs) : vs[k].status # "done"
    ELSE 0

BestVariant(vs) == FirstDone(vs, 1)

\* Mutant: no fallback for the empty Accept value.
BestVariantForAcceptNoFallback(vs, accept) ==
    LET cs == Candidates(vs, parseAccept(accept), 1)
    IN  IF cs = <<>> THEN 0 ELSE PickBest(Head(cs), Tail(cs)).variant

BestVariantForAccept(vs, accept) ==
    IF IsEmptyAccept(accept) THEN BestVariant(vs)
    ELSE LET cs == Candidates(vs, parseAccept(accept), 1)
         IN  IF cs = <<>> THEN 0 ELSE PickBest(Head(cs), Tail(cs)).variant

\* ------------------------------------------------------------- eventbus.go
ChanCap == 16

Event(status, message) == [type |-> "status", status |-> status, message |-> message]

\* make(chan Event, 16). media (the key the channel is registered under), got
\* (the events its reader has received) and fresh (it was made before any
\* state change of its Media) are history.
NewChan(m, fresh) ==
    [media |-> m, buf |-> <<>>, closed |-> FALSE, got |-> <<>>, fresh |-> fresh]

\* The position of channel c in the slice subs, 0 when it is not in it.
IndexOf(subs, c) ==
    IF \E i \in 1..Len(subs) : subs[i] = c
    THEN CHOOSE i \in 1..Len(subs) : subs[i] = c /\ \A k \in 1..(i - 1) : subs[k] # c
    ELSE 0

\* Subscribe: eb.subscribers[mediaID] = append(eb.subscribers[mediaID], ch).
\* (A missing key of the map reads as the empty slice; Unsubscribe deletes
\* the key of an empty slice.)
SubscribeChan(subs, m, c) == [subs EXCEPT ![m] = Append(@, c)]

\* Unsubscribe: the channel is cut out of the slice of mediaID, if it is in it.
UnsubscribeChan(subs, m, c) ==
    LET i == IndexOf(subs[m], c)
    IN  IF i = 0 THEN subs
        ELSE [subs EXCEPT ![m] = SubSeq(@, 1, i - 1) \o SubSeq(@, i + 1, Len(@))]

\* Mutant: close(ch) stands after the loop and closes the channel it is
\* given, found or not.
CloseChanAlways(cs, subs, m, c) == [cs EXCEPT ![c].closed = TRUE]

\* Unsubscribe: close(ch), for a channel found in the slice.
CloseChan(cs, subs, m, c) ==
    IF IndexOf(subs[m], c) = 0 THEN cs ELSE [cs EXCEPT ![c].closed = TRUE]

\* Mutant: the event goes to the channels of every media id.
PublishToAll(cs, subs, m, ev) ==
    [c \in 1..Len(cs) |->
        IF (\E k \in MediaIDs : IndexOf(subs[k], c) # 0) /\ Len(cs[c].buf) < ChanCap
        THEN [cs[c] EXCEPT !.buf = Append(@, ev)]
        ELSE cs[c]]

\* Mutant: the loop of Publish returns at the first full channel.
PublishStopAtFull(cs, subs, m, ev) ==
    [c \in 1..Len(cs) |->
        IF /\ IndexOf(subs[m], c) # 0
           /\ \A k \in 1..IndexOf(subs[m], c) : Len(cs[subs[m][k]].buf) < ChanCap
        THEN [cs[c] EXCEPT !.buf = Append(@, ev)]
        ELSE cs[c]]

\* Publish: for every channel of mediaID, select { case ch <- event: default: }:
\* the event is appended to a buffer with room and dropped for a full one.
Publish(cs, subs, m, ev) ==
    [c \in 1..Len(cs) |->
        IF IndexOf(subs[m], c) # 0 /\ Len(cs[c].buf) < ChanCap
        THEN [cs[c] EXCEPT !.buf = Append(@, ev)]
        ELSE cs[c]]

\* EventBus.mu with no holder and no Publish call under way. readers are the
\* callers holding the read lock; pub[p] is the Publish call of caller p: the
\* channels its range loop has still to visit; sentOnClosed records a send on
\* a closed channel (a panic of the Go runtime).
NoPublish == [pc |-> "idle", media |-> 0, todo |-> <<>>]

NoLock == [readers |-> {}, pub |-> [p \in Workers |-> NoPublish], sentOnClosed |-> FALSE]

\* The Events handler before a request has come in.
NoSSE == [pc |-> "none", ch |-> 0, event |-> "", shown |-> ""]

\* History of a job: what its conversions returned so far, and whether a
\* crash of the process found it pending or running.
NoOutcome == [result |-> "none", crashed |-> FALSE]

\* The outcome o of a conversion is noted in the record r of its job,
\* "mixed" when the job has been converted before with the other outcome.
Noted(r, o) == [r EXCEPT !.result = IF @ = "none" \/ @ = o THEN o ELSE "mixed"]

\* The ids of the clients of the login handler, and the durations given to
\* NewLoginRateLimiter, in ticks of the clock.
Clients == {1, 2}
Durations == {1, 2}

\* r.attempts[clientID] of a client without record, and the AttemptRecord
\* Check makes for it: BlockedUntil is the zero time, before every reading
\* of the clock.
NoRecord == [exists |-> FALSE, count |-> 0, lastAttempt |-> 0, blockedUntil |-> 0]

\* History of a client: the Check calls made since it last had no record,
\* counted up to maxAttempts + 2, and the time of the first of them.
NoCalls == [n |-> 0, first |-> 0]

\* The goroutines (request handlers) that call Check at the same time, and
\* a goroutine outside Check; rec is the record as the call read it.
Goroutines == {1, 2}
IdleCheck == [pc |-> "idle", client |-> 0, rec |-> NoRecord]

\* No Check call has returned yet.
NoAnswer == [client |-> 0, allowed |-> TRUE, remaining |-> 0]

\* NewLoginRateLimiter(maxAttempts, windowDuration, blockDuration); clock is
\* time.Now(), mu the goroutine holding r.mu (0: nobody), gor the Check
\* calls under way.
NewLoginRateLimiter(maxAttempts, windowDuration, blockDuration) ==
    [maxAttempts |-> maxAttempts, windowDuration |-> windowDuration,
     blockDuration |-> blockDuration, clock |-> 1,
     attempts |-> [c \in Clients |-> NoRecord],
     calls |-> [c \in Clients |-> NoCalls],
     last |-> NoAnswer,
     mu |-> 0,
     gor |-> [g \in Goroutines |-> IdleCheck]]

\* LoginRateLimiter before NewLoginRateLimiter.
NoLimiter == NewLoginRateLimiter(0, 0, 0)

\* Mutant: a Check of a blocked client starts the block again.
CheckRecordExtendsBlock(l, rec, t) ==
    LET r0 == IF rec.exists THEN rec ELSE [NoRecord EXCEPT !.exists = TRUE, !.lastAttempt = t]
        r1 == [r0 EXCEPT !.count = (IF t - r0.lastAttempt > l.windowDuration THEN 0 ELSE @) + 1,
                         !.lastAttempt = t]
    IN  IF t < r0.blockedUntil
        THEN [rec |-> [r0 EXCEPT !.blockedUntil = t + l.blockDuration],
              allowed |-> FALSE, remaining |-> r0.blockedUntil - t]
        ELSE IF r1.count > l.maxAttempts
        THEN [rec |-> [r1 EXCEPT !.blockedUntil = t + l.blockDuration],
              allowed |-> FALSE, remaining |-> l.blockDuration]
        ELSE [rec |-> r1, allowed |-> TRUE, remaining |-> 0]

\* Mutant: the client is blocked at its maxAttempts-th attempt.
CheckRecordBlocksAtMax(l, rec, t) ==
    LET r0 == IF rec.exists THEN rec ELSE [NoRecord EXCEPT !.exists = TRUE, !.lastAttempt = t]
        r1 == [r0 EXCEPT !.count = (IF t - r0.lastAttempt > l.windowDuration THEN 0 ELSE @) + 1,
                         !.lastAttempt = t]
    IN  IF t < r0.blockedUntil
        THEN [rec |-> r0, allowed |-> FALSE, remaining |-> r0.blockedUntil - t]
        ELSE IF r1.count >= l.maxAttempts
        THEN [rec |-> [r1 EXCEPT !.blockedUntil = t + l.blockDuration],
              allowed |-> FALSE, remaining |-> l.blockDuration]
        ELSE [rec |-> r1, allowed |-> TRUE, remaining |-> 0]

\* LoginRateLimiter.Check on the record rec of the client at time t: the
\* record it leaves and the pair it returns.
CheckRecord(l, rec, t) ==
    LET r0 == IF rec.exists THEN rec ELSE [NoRecord EXCEPT !.exists = TRUE, !.lastAttempt = t]
        r1 == [r0 EXCEPT !.count = (IF t - r0.lastAttempt > l.windowDuration THEN 0 ELSE @) + 1,
                         !.lastAttempt = t]
    IN  IF t < r0.blockedUntil
        THEN [rec |-> r0, allowed |-> FALSE, remaining |-> r0.blockedUntil - t]
        ELSE IF r1.count > l.maxAttempts
        THEN [rec |-> [r1 EXCEPT !.blockedUntil = t + l.blockDuration],
              allowed |-> FALSE, remaining |-> l.blockDuration]
        ELSE [rec |-> r1, allowed |-> TRUE, remaining |-> 0]

\* ------------------------------------------------------------------- Init
\* The state after construction, s being the selection call under way.
InitWith(s, l) ==
    /\ up = FALSE
    /\ now = 1
    /\ media = <<>>
    /\ variants = <<>>
    /\ jobs = <<>>
    /\ wk = [w \in Workers |-> StoppedWorker]
    /\ upl = IdleUpload
    /\ crashes = 0
    /\ storeErrs = 0
    /\ claimed = <<>>
    /\ claimsTotal = <<>>
    /\ recovered = {}
    /\ thumbFiles = {}
    /\ sel = s
    /\ subscribers = [m \in MediaIDs |-> <<>>]
    /\ chans = <<>>
    /\ pubCount = [m \in MediaIDs |-> 0]
    /\ outcome = <<>>
    /\ ctx = "live"
    /\ lk = NoLock
    /\ limiter = l
    /\ sse = NoSSE

InitState(s) == InitWith(s, NoLimiter)

Init == InitState(NoCall)

\* One second passes. The clock is read by the inserts of Upload only.
Tick ==
    /\ now < MaxTime
    /\ media = <<>> \/ upl.pc # "idle"
    /\ now' = now + 1
    /\ UNCHANGED <<up, media, variants, jobs, wk, upl, crashes, storeErrs,
                   claimed, claimsTotal, recovered>>
    /\ UNCHANGED <<thumbFiles, sel, outcome, ctx, extVars, subscribers, chans, pubCount>>

\* Mutant: the worker goroutines are started without the reset.
StartWithoutReset ==
    /\ ~up
    /\ ctx = "live"
    /\ up' = TRUE
    /\ jobs' = jobs
    /\ wk' = [w \in Workers |-> IdleWorker]
    /\ recovered' = {j \in 1..Len(jobs) : jobs[j].status = "running"}
    /\ claimed' = [j \in 1..Len(jobs) |-> 0]
    /\ UNCHANGED <<now, media, variants, upl, crashes, storeErrs, claimsTotal>>
    /\ UNCHANGED <<thumbFiles, sel, outcome, ctx, extVars, subscribers, chans, pubCount>>

\* WorkerPool.Start: ResetStalled(), then one goroutine per worker.
Start ==
    /\ ~up
    /\ ctx = "live"
    /\ up' = TRUE
    /\ jobs' = ResetStalledJobs(jobs)
    /\ wk' = [w \in Workers |-> IdleWorker]
    /\ recovered' = {j \in 1..Len(jobs) : jobs[j].status = "running"}
    /\ claimed' = [j \in 1..Len(jobs) |-> 0]
    /\ UNCHANGED <<now, media, variants, upl, crashes, storeErrs, claimsTotal>>
    /\ UNCHANGED <<thumbFiles, sel, outcome, ctx, extVars, subscribers, chans, pubCount>>

\* ------------------------------------------------- MediaService.Upload
\* Upload up to store.Save: the Media is created pending; H264 is appended to
\* the codec list of a video that does not name it.
UploadSave(req) ==
    /\ up
    /\ ctx = "live"
    /\ upl.pc = "idle"
    /\ media = <<>>
    /\ LET codecs == IF req.type = MediaTypeVideo /\ ~Contains(req.codecs, CodecH264)
                     THEN Append(req.codecs, CodecH264)
                     ELSE req.codecs
       IN  /\ media' = Append(media, NewMedia(req.type))
           /\ upl' = [pc |-> IF Len(codecs) = 0 THEN "nocodec" ELSE "variant",
                      media |-> Len(media) + 1, codecs |-> codecs, i |-> 1]
    /\ UNCHANGED <<up, now, variants, jobs, wk, crashes, storeErrs,
                   claimed, claimsTotal, recovered>>
    /\ UNCHANGED <<thumbFiles, sel, outcome, ctx, extVars, subscribers, chans, pubCount>>

\* No codec requested: the original file is the result.
UploadNoCodec ==
    /\ up
    /\ upl.pc = "nocodec"
    /\ LET m == MarkAsDone(NewMedia(media[upl.media].type), <<"original">>, "", 0, 0, "", 3)
       IN  media' = UpdateMediaDone(media, upl.media, m)
    /\ upl' = IdleUpload
    /\ UNCHANGED <<up, now, variants, jobs, wk, crashes, storeErrs,
                   claimed, claimsTotal, recovered>>
    /\ UNCHANGED <<thumbFiles, sel, outcome, ctx, extVars, subscribers, chans, pubCount>>

\* One iteration of the codec loop, first half: store.SaveVariant.
UploadSaveVariant ==
    /\ up
    /\ upl.pc = "variant"
    /\ variants' = InsertVariant(variants, upl.media, upl.codecs[upl.i], now)
    /\ upl' = [upl EXCEPT !.pc = "enqueue"]
    /\ UNCHANGED <<up, now, media, jobs, wk, crashes, storeErrs,
                   claimed, claimsTotal, recovered>>
    /\ UNCHANGED <<thumbFiles, sel, outcome, ctx, extVars, subscribers, chans, pubCount>>

\* Second half: jobQueue.Enqueue of the convert job, then the next codec.
UploadEnqueue ==
    /\ up
    /\ upl.pc = "enqueue"
    /\ jobs' = InsertJob(jobs, upl.media, JobTypeConvert, upl.codecs[upl.i], now)
    /\ claimed' = Append(claimed, 0)
    /\ claimsTotal' = Append(claimsTotal, 0)
    /\ upl' = IF upl.i < Len(upl.codecs)
              THEN [upl EXCEPT !.pc = "variant", !.i = @ + 1]
              ELSE IdleUpload
    /\ outcome' = Append(outcome, NoOutcome)
    /\ UNCHANGED <<up, now, media, variants, wk, crashes, storeErrs, recovered>>
    /\ UNCHANGED <<thumbFiles, sel, ctx, extVars, subscribers, chans, pubCount>>

\* --------------------------------------------------------------- workers
\* runWorker, top of the loop: the worker goes on to Claim() when ctx.Done()
\* is not ready. A worker at "polling" made that check before the context
\* was cancelled and has not called Claim() yet.
CanClaim(w) == (wk[w].pc = "idle" /\ ctx = "live") \/ wk[w].pc = "polling"

\* Mutant: the default case of the switch runs handleConvert.
DispatchDefaultConvert(type) ==
    CASE type = JobTypeThumbnail -> "ht_get"
      [] type = JobTypeProbe -> "hp_get"
      [] OTHER -> "hc_get"

\* processJob: switch job.Type; the position of the worker when the handler
\* of the kind starts.
Dispatch(type) ==
    CASE type = JobTypeConvert -> "hc_get"
      [] type = JobTypeThumbnail -> "ht_get"
      [] type = JobTypeProbe -> "hp_get"
      [] OTHER -> "unknown"

\* runWorker: Claim() returned a job; processJob dispatches on its type.
\* (Claim() returning nil leaves every variable as it is: the worker sleeps
\* and polls again.)
Claim(w) ==
    /\ up
    /\ CanClaim(w)
    /\ \E j \in ClaimCandidates(jobs) :
          /\ jobs' = ClaimNextJob(jobs, j)
          /\ wk' = [wk EXCEPT ![w] = [IdleWorker EXCEPT !.pc = Dispatch(jobs[j].type),
                                                        !.job = j, !.jobrow = jobs'[j]]]
          /\ claimed' = [claimed EXCEPT ![j] = @ + 1]
          /\ claimsTotal' = [claimsTotal EXCEPT ![j] = @ + 1]
    /\ UNCHANGED <<up, now, media, variants, upl, crashes, storeErrs, recovered>>
    /\ UNCHANGED <<thumbFiles, sel, outcome, ctx, extVars, subscribers, chans, pubCount>>

\* handleConvert: store.Get(job.MediaID).
HandleConvertGet(w) ==
    /\ up
    /\ wk[w].pc = "hc_get"
    /\ wk' = [wk EXCEPT ![w] = [@ EXCEPT !.pc = "hc_status",
                                         !.m = media[wk[w].jobrow.media]]]
    /\ UNCHANGED <<up, now, media, variants, jobs, upl, crashes, storeErrs,
                   claimed, claimsTotal, recovered>>
    /\ UNCHANGED <<thumbFiles, sel, outcome, ctx, extVars, subscribers, chans, pubCount>>

\* Mutant: the Media is set to processing without an event.
HandleConvertStatusSilent(w) ==
    /\ up
    /\ wk[w].pc = "hc_status"
    /\ media' = IF wk[w].m.status = "pending"
                THEN UpdateMediaStatus(media, wk[w].jobrow.media, "processing", "")
                ELSE media
    /\ wk' = [wk EXCEPT ![w] = [@ EXCEPT !.pc = "hv_start"]]
    /\ UNCHANGED <<up, now, variants, jobs, upl, crashes, storeErrs,
                   claimed, claimsTotal, recovered>>
    /\ chans' = chans
    /\ UNCHANGED <<thumbFiles, sel, outcome, ctx, extVars, subscribers, pubCount>>

\* handleConvert: a Media read as pending is set to processing and a status
\* event is published.
HandleConvertStatus(w) ==
    /\ up
    /\ wk[w].pc = "hc_status"
    /\ media' = IF wk[w].m.status = "pending"
                THEN UpdateMediaStatus(media, wk[w].jobrow.media, "processing", "")
                ELSE media
    /\ wk' = [wk EXCEPT ![w] = [@ EXCEPT !.pc = "hv_start"]]
    /\ UNCHANGED <<up, now, variants, jobs, upl, crashes, storeErrs,
                   claimed, claimsTotal, recovered>>
    /\ chans' = IF wk[w].m.status = "pending"
                THEN Publish(chans, subscribers, wk[w].jobrow.media,
                             Event("processing", ""))
                ELSE chans
    /\ UNCHANGED <<thumbFiles, sel, outcome, ctx, extVars, subscribers, pubCount>>

\* handleVariantConvert: GetVariantByMediaAndCodec, then
\* UpdateVariantStatus(variant.ID, processing, "") and a status event.
VariantStart(w) ==
    /\ up
    /\ wk[w].pc = "hv_start"
    /\ \E v \in VariantsByMediaAndCodec(variants, wk[w].jobrow.media, wk[w].jobrow.codec) :
          /\ variants' = UpdateVariantStatus(variants, v, "processing", "")
          /\ wk' = [wk EXCEPT ![w] = [@ EXCEPT !.pc = "hv_convert", !.vid = v]]
    /\ UNCHANGED <<up, now, media, jobs, upl, crashes, storeErrs,
                   claimed, claimsTotal, recovered>>
    /\ chans' = Publish(chans, subscribers, wk[w].jobrow.media, Event("processing", ""))
    /\ UNCHANGED <<thumbFiles, sel, outcome, ctx, extVars, subscribers, pubCount>>

\* converter.ConvertCodec succeeds; for a video converter.Probe gives the
\* dimensions (a failing Probe is only logged and leaves them 0, the value
\* of an audio variant).
ConvertOk(w) ==
    /\ up
    /\ wk[w].pc = "hv_convert"
    /\ LET codec == wk[w].jobrow.codec
           dim == IF wk[w].m.type = MediaTypeVideo THEN DimOf(codec) ELSE 0
       IN  wk' = [wk EXCEPT ![w] = [@ EXCEPT !.pc = "hv_done",
                        !.out = [path |-> OutputPath(codec), size |-> FileSizeOf(codec),
                                 width |-> dim, height |-> dim]]]
    /\ outcome' = [outcome EXCEPT ![wk[w].job] = Noted(@, "ok")]
    /\ UNCHANGED <<up, now, media, variants, jobs, upl, crashes, storeErrs,
                   claimed, claimsTotal, recovered>>
    /\ UNCHANGED <<thumbFiles, sel, ctx, extVars, subscribers, chans, pubCount>>

\* converter.ConvertCodec returns an error: handleConvert returns it.
ConvertFail(w) ==
    /\ up
    /\ wk[w].pc = "hv_convert"
    /\ wk' = [wk EXCEPT ![w] = [@ EXCEPT !.pc = "fail", !.m = <<>>,
                                         !.err = ConvertError(wk[w].jobrow.codec)]]
    /\ outcome' = [outcome EXCEPT ![wk[w].job] = Noted(@, "fail")]
    /\ UNCHANGED <<up, now, media, variants, jobs, upl, crashes, storeErrs,
                   claimed, claimsTotal, recovered>>
    /\ UNCHANGED <<thumbFiles, sel, ctx, extVars, subscribers, chans, pubCount>>

\* store.UpdateVariantDone(variant); then, for a video whose local Media has
\* no thumbnail, converter.Thumbnail: when it succeeds (ok) the file is on
\* disk and its path is put in the local Media, when it fails the error is
\* only logged.
VariantDone(w) ==
    /\ up
    /\ wk[w].pc = "hv_done"
    /\ variants' = UpdateVariantDone(variants, wk[w].vid, wk[w].out)
    /\ \E ok \in BOOLEAN :
          LET made == wk[w].m.type = MediaTypeVideo /\ wk[w].m.thumb = "" /\ ok
          IN  /\ thumbFiles' = IF made THEN thumbFiles \cup {wk[w].jobrow.media}
                                       ELSE thumbFiles
              /\ wk' = [wk EXCEPT ![w] = [@ EXCEPT !.pc = "hv_refetch", !.out = <<>>,
                              !.m = IF made THEN [@ EXCEPT !.thumb = ThumbPath] ELSE @]]
    /\ UNCHANGED <<up, now, media, jobs, upl, crashes, storeErrs,
                   claimed, claimsTotal, recovered>>
    /\ UNCHANGED <<sel, outcome, ctx, extVars, subscribers, chans, pubCount>>

\* media, err = wp.store.Get(media.ID): the row and its variants.
VariantRefetch(w) ==
    /\ up
    /\ wk[w].pc = "hv_refetch"
    /\ wk' = [wk EXCEPT ![w] = [@ EXCEPT !.pc = "hv_final",
                                         !.m = media[wk[w].jobrow.media],
                                         !.vs = Snapshot(wk[w].jobrow.media)]]
    /\ UNCHANGED <<up, now, media, variants, jobs, upl, crashes, storeErrs,
                   claimed, claimsTotal, recovered>>
    /\ UNCHANGED <<thumbFiles, sel, outcome, ctx, extVars, subscribers, chans, pubCount>>

\* The Media the worker writes when it finalizes on the fetched snapshot:
\* MarkAsDone with the best variant b.
Finalized(m, vs, b) ==
    MarkAsDone(m, vs[b].path, vs[b].codec, vs[b].width, vs[b].height, m.thumb, vs[b].size)

\* handleVariantConvert, lines 455-472: finalize when all variants are terminal.
VariantFinal(w) ==
    /\ up
    /\ wk[w].pc = "hv_final"
    /\ LET id == wk[w].jobrow.media
           m == wk[w].m
           vs == wk[w].vs
       IN  IF AllVariantsTerminal(vs)
           THEN IF BestVariants(vs) # {}
                THEN \E b \in BestVariants(vs) :
                        media' = UpdateMediaDone(media, id, Finalized(m, vs, b))
                ELSE media' = UpdateMediaStatus(media, id, "failed", AllFailedMessage)
           ELSE media' = media
    /\ wk' = [wk EXCEPT ![w] = [@ EXCEPT !.pc = "complete", !.m = <<>>, !.vs = <<>>]]
    /\ UNCHANGED <<up, now, variants, jobs, upl, crashes, storeErrs,
                   claimed, claimsTotal, recovered>>
    /\ chans' = Publish(chans, subscribers, wk[w].jobrow.media,
                        IF ~AllVariantsTerminal(wk[w].vs) THEN Event("processing", "")
                        ELSE IF BestVariants(wk[w].vs) # {} THEN Event("done", "")
                        ELSE Event("failed", AllFailedMessage))
    /\ UNCHANGED <<thumbFiles, sel, outcome, ctx, extVars, subscribers, pubCount>>

\* processJob, success: jobQueue.Complete(job.ID); back to the loop.
Complete(w) ==
    /\ up
    /\ wk[w].pc = "complete"
    /\ jobs' = CompleteJob(jobs, wk[w].job)
    /\ wk' = [wk EXCEPT ![w] = IdleWorker]
    /\ UNCHANGED <<up, now, media, variants, upl, crashes, storeErrs,
                   claimed, claimsTotal, recovered>>
    /\ UNCHANGED <<thumbFiles, sel, outcome, ctx, extVars, subscribers, chans, pubCount>>

\* Mutant: the worker goroutine ends after a job that failed.
AfterJobErrorStops == [IdleWorker EXCEPT !.pc = "exited"]

\* processJob returns after a job error, which it has logged, and runWorker
\* goes round its loop again.
AfterJobError == IdleWorker

\* processJob, error: jobQueue.Fail(job.ID, err.Error()); failVariant follows
\* for a convert job, and processJob returns for any other kind.
Fail(w) ==
    /\ up
    /\ wk[w].pc = "fail"
    /\ jobs' = FailJob(jobs, wk[w].job, wk[w].err)
    /\ wk' = [wk EXCEPT ![w] = IF wk[w].jobrow.type = JobTypeConvert
                                THEN [@ EXCEPT !.pc = "fv_start"]
                                ELSE AfterJobError]
    /\ UNCHANGED <<up, now, media, variants, upl, crashes, storeErrs,
                   claimed, claimsTotal, recovered>>
    /\ UNCHANGED <<thumbFiles, sel, outcome, ctx, extVars, subscribers, chans, pubCount>>

\* failVariant: GetVariantByMediaAndCodec, then
\* UpdateVariantStatus(variant.ID, failed, job.ErrorMessage), job being the
\* struct Claim() returned.
FailVariantStart(w) ==
    /\ up
    /\ wk[w].pc = "fv_start"
    /\ \E v \in VariantsByMediaAndCodec(variants, wk[w].jobrow.media, wk[w].jobrow.codec) :
          /\ variants' = UpdateVariantStatus(variants, v, "failed", wk[w].jobrow.err)
          /\ wk' = [wk EXCEPT ![w] = [@ EXCEPT !.pc = "fv_refetch", !.vid = v]]
    /\ UNCHANGED <<up, now, media, jobs, upl, crashes, storeErrs,
                   claimed, claimsTotal, recovered>>
    /\ UNCHANGED <<thumbFiles, sel, outcome, ctx, extVars, subscribers, chans, pubCount>>

FailVariantRefetch(w) ==
    /\ up
    /\ wk[w].pc = "fv_refetch"
    /\ wk' = [wk EXCEPT ![w] = [@ EXCEPT !.pc = "fv_final",
                                         !.m = media[wk[w].jobrow.media],
                                         !.vs = Snapshot(wk[w].jobrow.media)]]
    /\ UNCHANGED <<up, now, media, variants, jobs, upl, crashes, storeErrs,
                   claimed, claimsTotal, recovered>>
    /\ UNCHANGED <<thumbFiles, sel, outcome, ctx, extVars, subscribers, chans, pubCount>>

\* failVariant, lines 522-534; processJob returns.
FailVariantFinal(w) ==
    /\ up
    /\ wk[w].pc = "fv_final"
    /\ LET id == wk[w].jobrow.media
           m == wk[w].m
           vs == wk[w].vs
       IN  IF AllVariantsTerminal(vs)
           THEN IF HasDoneVariant(vs)
                THEN \E b \in BestVariants(vs) :
                        media' = UpdateMediaDone(media, id, Finalized(m, vs, b))
                ELSE media' = UpdateMediaStatus(media, id, "failed", AllFailedMessage)
           ELSE media' = media
    /\ wk' = [wk EXCEPT ![w] = AfterJobError]
    /\ UNCHANGED <<up, now, variants, jobs, upl, crashes, storeErrs,
                   claimed, claimsTotal, recovered>>
    /\ chans' = IF ~AllVariantsTerminal(wk[w].vs) THEN chans
                ELSE Publish(chans, subscribers, wk[w].jobrow.media,
                             IF HasDoneVariant(wk[w].vs) THEN Event("done", "")
                             ELSE Event("failed", AllFailedMessage))
    /\ UNCHANGED <<thumbFiles, sel, outcome, ctx, extVars, subscribers, pubCount>>

\* ------------------------------------- thumbnail, probe and unknown jobs
\* JobQueue.Enqueue called for an existing Media with a kind other than
\* convert. (Upload enqueues a thumbnail job only for a video without
\* codecs, which it never has after the append of H264; such jobs come from
\* other callers of the queue.)
EnqueueDirect(m, type) ==
    /\ up
    /\ m \in DOMAIN media
    /\ Cardinality({j \in DOMAIN jobs : jobs[j].type # JobTypeConvert}) < MaxDirectJobs
    /\ jobs' = InsertJob(jobs, m, type, "", now)
    /\ claimed' = Append(claimed, 0)
    /\ claimsTotal' = Append(claimsTotal, 0)
    /\ outcome' = Append(outcome, NoOutcome)
    /\ UNCHANGED <<up, now, media, variants, wk, upl, crashes, storeErrs, recovered>>
    /\ UNCHANGED <<thumbFiles, sel, ctx, extVars, subscribers, chans, pubCount>>

\* processJob, default case: err = fmt.Errorf("unknown job type: %s", job.Type).
UnknownKind(w) ==
    /\ up
    /\ wk[w].pc = "unknown"
    /\ wk' = [wk EXCEPT ![w] = [@ EXCEPT !.pc = "fail",
                                         !.err = UnknownKindError(wk[w].jobrow.type)]]
    /\ UNCHANGED <<up, now, media, variants, jobs, upl, crashes, storeErrs,
                   claimed, claimsTotal, recovered>>
    /\ UNCHANGED <<thumbFiles, sel, outcome, ctx, extVars, subscribers, chans, pubCount>>

\* handleThumbnail and handleProbe: store.Get(job.MediaID).
HandleGet(w) ==
    /\ up
    /\ wk[w].pc \in {"ht_get", "hp_get"}
    /\ wk' = [wk EXCEPT ![w] = [@ EXCEPT !.pc = IF wk[w].pc = "ht_get" THEN "ht_thumb"
                                                ELSE "hp_probe",
                                         !.m = media[wk[w].jobrow.media]]]
    /\ UNCHANGED <<up, now, media, variants, jobs, upl, crashes, storeErrs,
                   claimed, claimsTotal, recovered>>
    /\ UNCHANGED <<thumbFiles, sel, outcome, ctx, extVars, subscribers, chans, pubCount>>

\* handleThumbnail: converter.Thumbnail wrote the file; media.ThumbPath is set
\* in the fetched Media.
ThumbnailOk(w) ==
    /\ up
    /\ wk[w].pc = "ht_thumb"
    /\ thumbFiles' = thumbFiles \cup {wk[w].jobrow.media}
    /\ wk' = [wk EXCEPT ![w] = [@ EXCEPT !.pc = "update_done", !.m.thumb = ThumbPath]]
    /\ UNCHANGED <<up, now, media, variants, jobs, upl, crashes, storeErrs,
                   claimed, claimsTotal, recovered>>
    /\ UNCHANGED <<sel, outcome, ctx, extVars, subscribers, chans, pubCount>>

\* handleProbe: converter.Probe read the file; media.Width and media.Height
\* are set in the fetched Media.
ProbeOk(w) ==
    /\ up
    /\ wk[w].pc = "hp_probe"
    /\ wk' = [wk EXCEPT ![w] = [@ EXCEPT !.pc = "update_done", !.m.width = ProbeDim,
                                         !.m.height = ProbeDim]]
    /\ UNCHANGED <<up, now, media, variants, jobs, upl, crashes, storeErrs,
                   claimed, claimsTotal, recovered>>
    /\ UNCHANGED <<thumbFiles, sel, outcome, ctx, extVars, subscribers, chans, pubCount>>

\* converter.Thumbnail or converter.Probe returns an error: the handler
\* returns it wrapped.
ToolFail(w) ==
    /\ up
    /\ wk[w].pc \in {"ht_thumb", "hp_probe"}
    /\ wk' = [wk EXCEPT ![w] = [@ EXCEPT !.pc = "fail", !.m = <<>>,
                                         !.err = IF wk[w].pc = "ht_thumb" THEN ThumbnailError
                                                 ELSE ProbeError]]
    /\ UNCHANGED <<up, now, media, variants, jobs, upl, crashes, storeErrs,
                   claimed, claimsTotal, recovered>>
    /\ UNCHANGED <<thumbFiles, sel, outcome, ctx, extVars, subscribers, chans, pubCount>>

\* handleThumbnail and handleProbe: return wp.store.UpdateDone(media), with
\* the Media fetched at the start of the handler.
HandleUpdateDone(w) ==
    /\ up
    /\ wk[w].pc = "update_done"
    /\ media' = UpdateMediaDone(media, wk[w].jobrow.media, wk[w].m)
    /\ wk' = [wk EXCEPT ![w] = [@ EXCEPT !.pc = "complete"]]
    /\ UNCHANGED <<up, now, variants, jobs, upl, crashes, storeErrs,
                   claimed, claimsTotal, recovered>>
    /\ UNCHANGED <<thumbFiles, sel, outcome, ctx, extVars, subscribers, chans, pubCount>>

\* ---------------------------------------------------------------- faults
\* store.UpdateDone returns an error in handleVariantConvert: the error is
\* returned to processJob ("update media done: ...").
VariantFinalStoreError(w) ==
    /\ up
    /\ wk[w].pc = "hv_final"
    /\ storeErrs < MaxStoreErrs
    /\ AllVariantsTerminal(wk[w].vs)
    /\ BestVariants(wk[w].vs) # {}
    /\ storeErrs' = storeErrs + 1
    /\ wk' = [wk EXCEPT ![w] = [@ EXCEPT !.pc = "fail", !.err = UpdateDoneError,
                                         !.m = <<>>, !.vs = <<>>]]
    /\ UNCHANGED <<up, now, media, variants, jobs, upl, crashes,
                   claimed, claimsTotal, recovered>>
    /\ UNCHANGED <<thumbFiles, sel, outcome, ctx, extVars, subscribers, chans, pubCount>>

\* The process dies: every goroutine and the EventBus are gone, the database
\* and the files stay.
Crash ==
    /\ up
    /\ crashes < MaxCrashes
    /\ up' = FALSE
    /\ crashes' = crashes + 1
    /\ wk' = [w \in Workers |-> StoppedWorker]
    /\ upl' = IdleUpload
    /\ UNCHANGED <<now, media, variants, jobs, storeErrs, claimed, claimsTotal, recovered>>
    /\ subscribers' = [m \in MediaIDs |-> <<>>]
    /\ chans' = <<>>
    /\ outcome' = [j \in DOMAIN outcome |->
                      IF jobs[j].status \in {"pending", "running"}
                      THEN [outcome[j] EXCEPT !.crashed = TRUE] ELSE outcome[j]]
    /\ UNCHANGED <<thumbFiles, sel, ctx, extVars, pubCount>>

\* ------------------------------------------------ cancellation, shutdown
\* workerCancel(): ctx.Done() becomes ready. The workers in S, idle ones,
\* made their check of ctx.Done() just before and go on to Claim().
Cancel ==
    /\ up
    /\ ctx = "live"
    /\ ctx' = "cancelled"
    /\ \E S \in SUBSET {w \in Workers : wk[w].pc = "idle"} :
          wk' = [w \in Workers |-> IF w \in S THEN [wk[w] EXCEPT !.pc = "polling"]
                                   ELSE wk[w]]
    /\ UNCHANGED <<up, now, media, variants, jobs, upl, crashes, storeErrs,
                   claimed, claimsTotal, recovered>>
    /\ UNCHANGED <<thumbFiles, sel, outcome, extVars, subscribers, chans, pubCount>>

\* runWorker: Claim() returned no job to the worker that was past its check;
\* it sleeps and comes back to the top of the loop.
ClaimNone(w) ==
    /\ up
    /\ wk[w].pc = "polling"
    /\ ClaimCandidates(jobs) = {}
    /\ wk' = [wk EXCEPT ![w] = IdleWorker]
    /\ UNCHANGED <<up, now, media, variants, jobs, upl, crashes, storeErrs,
                   claimed, claimsTotal, recovered>>
    /\ UNCHANGED <<thumbFiles, sel, outcome, ctx, extVars, subscribers, chans, pubCount>>

\* Mutant: the worker goroutine ends at the cancellation wherever it is.
WorkerExitAnywhere(w) ==
    /\ up
    /\ ctx = "cancelled"
    /\ wk[w].pc # "exited"
    /\ wk' = [wk EXCEPT ![w] = [IdleWorker EXCEPT !.pc = "exited"]]
    /\ UNCHANGED <<up, now, media, variants, jobs, upl, crashes, storeErrs,
                   claimed, claimsTotal, recovered>>
    /\ UNCHANGED <<thumbFiles, sel, outcome, ctx, extVars, subscribers, chans, pubCount>>

\* runWorker, top of the loop: case <-ctx.Done(): return.
WorkerExit(w) ==
    /\ up
    /\ ctx = "cancelled"
    /\ wk[w].pc = "idle"
    /\ wk' = [wk EXCEPT ![w] = [IdleWorker EXCEPT !.pc = "exited"]]
    /\ UNCHANGED <<up, now, media, variants, jobs, upl, crashes, storeErrs,
                   claimed, claimsTotal, recovered>>
    /\ UNCHANGED <<thumbFiles, sel, outcome, ctx, extVars, subscribers, chans, pubCount>>

\* main: the signal goroutine has called httpServer.Shutdown, which waits for
\* the requests under way, ListenAndServe has returned and main returns;
\* the worker goroutines end with the process wherever they are.
Exit ==
    /\ up
    /\ ctx = "cancelled"
    /\ upl.pc = "idle"
    /\ up' = FALSE
    /\ ctx' = "exited"
    /\ wk' = [w \in Workers |-> StoppedWorker]
    /\ subscribers' = [m \in MediaIDs |-> <<>>]
    /\ chans' = <<>>
    /\ UNCHANGED <<now, media, variants, jobs, upl, crashes, storeErrs,
                   claimed, claimsTotal, recovered>>
    /\ UNCHANGED <<thumbFiles, sel, outcome, extVars, pubCount>>

\* ------------------------------------------------------- specifications
WorkerStep(w) ==
    \/ Claim(w)
    \/ HandleConvertGet(w)
    \/ HandleConvertStatus(w)
    \/ VariantStart(w)
    \/ ConvertOk(w)
    \/ ConvertFail(w)
    \/ VariantDone(w)
    \/ VariantRefetch(w)
    \/ VariantFinal(w)
    \/ Complete(w)
    \/ Fail(w)
    \/ FailVariantStart(w)
    \/ FailVariantRefetch(w)
    \/ FailVariantFinal(w)

Next ==
    \/ Tick
    \/ Start
    \/ \E req \in UploadRequests : UploadSave(req)
    \/ UploadNoCodec
    \/ UploadSaveVariant
    \/ UploadEnqueue
    \/ \E w \in Workers : WorkerStep(w)

\* Normal operation: no crash, no store error.
Spec == Init /\ [][Next]_vars

\* The worker pool with a cancellation of its context, the process living on.
CancelStep(w) == WorkerStep(w) \/ ClaimNone(w) \/ WorkerExit(w)

NextCancel ==
    \/ Start
    \/ \E req \in UploadRequests : UploadSave(req)
    \/ UploadNoCodec
    \/ UploadSaveVariant
    \/ UploadEnqueue
    \/ Cancel
    \/ \E w \in Workers : CancelStep(w)

\* Every worker goroutine is scheduled again and again, and every call it
\* makes returns (the converter runs under a timeout).
SpecCancel == Init /\ [][NextCancel]_vars /\ \A w \in Workers : WF_vars(CancelStep(w))

\* Graceful shutdown of the process.
NextShutdown ==
    \/ NextCancel
    \/ Exit

SpecShutdown == Init /\ [][NextShutdown]_vars

\* Normal operation with every goroutine scheduled again and again: the
\* workers, the request handler that runs Upload, and main up to Start.
SpecLive ==
    /\ Spec
    /\ \A w \in Workers : WF_vars(WorkerStep(w))
    /\ WF_vars(UploadNoCodec \/ UploadSaveVariant \/ UploadEnqueue)
    /\ WF_vars(Start)

NextFault ==
    \/ Next
    \/ Crash
    \/ \E w \in Workers : VariantFinalStoreError(w)

\* Operation with process crashes (and restarts) and failing UpdateDone calls.
SpecFault == Init /\ [][NextFault]_vars

\* store.SaveVariant returns an error in Upload's codec loop: the error is
\* logged and the loop continues with the next codec, without a job.
UploadSaveVariantError ==
    /\ up
    /\ upl.pc = "variant"
    /\ storeErrs < MaxStoreErrs
    /\ storeErrs' = storeErrs + 1
    /\ upl' = IF upl.i < Len(upl.codecs)
              THEN [upl EXCEPT !.i = @ + 1]
              ELSE IdleUpload
    /\ UNCHANGED <<up, now, media, variants, jobs, wk, crashes,
                   claimed, claimsTotal, recovered>>
    /\ UNCHANGED <<thumbFiles, sel, outcome, ctx, extVars, subscribers, chans, pubCount>>

\* jobQueue.Enqueue returns an error in Upload's codec loop: the error is
\* logged, the Variant just saved stays, and the loop goes on.
UploadEnqueueError ==
    /\ up
    /\ upl.pc = "enqueue"
    /\ storeErrs < MaxStoreErrs
    /\ storeErrs' = storeErrs + 1
    /\ upl' = IF upl.i < Len(upl.codecs)
              THEN [upl EXCEPT !.pc = "variant", !.i = @ + 1]
              ELSE IdleUpload
    /\ UNCHANGED <<up, now, media, variants, jobs, wk, crashes,
                   claimed, claimsTotal, recovered>>
    /\ UNCHANGED <<thumbFiles, sel, outcome, ctx, extVars, subscribers, chans, pubCount>>

NextUpload ==
    \/ Next
    \/ UploadSaveVariantError
    \/ UploadEnqueueError

\* Operation with failing SaveVariant and Enqueue calls in Upload.
SpecUpload == Init /\ [][NextUpload]_vars

\* ------------------------------------------------- variant selection calls
\* A Media with some variant list receives one call.
InitSelect ==
    \E vs \in VariantLists :
        InitState([pc |-> "input", variants |-> vs, accept |-> <<>>, result |-> 0])

pipelineVars == <<up, now, media, variants, jobs, wk, upl, crashes, storeErrs,
                  claimed, claimsTotal, recovered, thumbFiles, outcome, ctx>>
busVars == <<subscribers, chans, pubCount>>

CallBestVariant ==
    /\ sel.pc = "input"
    /\ sel' = [sel EXCEPT !.pc = "best", !.result = BestVariant(sel.variants)]
    /\ UNCHANGED <<pipelineVars, busVars, extVars>>

CallBestVariantForAccept ==
    /\ sel.pc = "input"
    /\ \E accept \in AcceptValues :
          sel' = [sel EXCEPT !.pc = "accept", !.accept = accept,
                             !.result = BestVariantForAccept(sel.variants, accept)]
    /\ UNCHANGED <<pipelineVars, busVars, extVars>>

NextSelect ==
    \/ CallBestVariant
    \/ CallBestVariantForAccept

SpecSelect == InitSelect /\ [][NextSelect]_vars

\* --------------------------------------------------------- the event bus
\* Subscribe(m): a new channel is registered under media id m. The
\* subscription is fresh when no convert job of m has been claimed and m, if
\* it exists, is pending.
Subscribe(m) ==
    /\ Len(chans) + 1 \in Connections
    /\ LET fresh == /\ \A j \in DOMAIN jobs : jobs[j].media = m => claimsTotal[j] = 0
                    /\ m \in DOMAIN media => media[m].status = "pending"
       IN  chans' = Append(chans, NewChan(m, fresh))
    /\ subscribers' = SubscribeChan(subscribers, m, Len(chans) + 1)
    /\ UNCHANGED <<pipelineVars, sel, extVars, pubCount>>

\* SSEHandler.Events: the Media exists and is not terminal; the handler
\* subscribes and waits for events.
Events(m) ==
    /\ m \in DOMAIN media
    /\ media[m].status \notin {"done", "failed"}
    /\ Subscribe(m)

\* Unsubscribe(m, c), for any media id and any channel made so far: a channel
\* registered under m is removed and closed; for another one (a wrong media
\* id, a second call) nothing is found and nothing changes.
Unsubscribe(m, c) ==
    /\ c \in DOMAIN chans
    /\ subscribers' = UnsubscribeChan(subscribers, m, c)
    /\ chans' = CloseChan(chans, subscribers, m, c)
    /\ UNCHANGED <<pipelineVars, sel, extVars, pubCount>>

\* A publisher calls Publish(m, event); its events are told apart by their
\* message, <<m, n>> for the n-th event published for m.
PublishEvent(m) ==
    /\ pubCount[m] < MaxPublish
    /\ pubCount' = [pubCount EXCEPT ![m] = @ + 1]
    /\ chans' = Publish(chans, subscribers, m, Event("processing", <<m, pubCount[m] + 1>>))
    /\ UNCHANGED <<pipelineVars, sel, extVars, subscribers>>

\* The reader of channel c receives the next buffered event.
Receive(c) ==
    /\ c \in DOMAIN chans
    /\ chans[c].buf # <<>>
    /\ Len(chans[c].got) < MaxReads
    /\ chans' = [chans EXCEPT ![c] = [@ EXCEPT !.buf = Tail(@),
                                               !.got = Append(@, Head(chans[c].buf))]]
    /\ UNCHANGED <<pipelineVars, sel, extVars, subscribers, pubCount>>

\* The event bus on its own: events are published for media 1, connections
\* subscribe to media 1 or 2.
NextBus ==
    \/ \E m \in MediaIDs : Subscribe(m)
    \/ \E m \in MediaIDs, c \in Connections : Unsubscribe(m, c)
    \/ PublishEvent(1)
    \/ \E c \in Connections : Receive(c)

SpecBus == Init /\ [][NextBus]_vars

\* The pipeline, failing UpdateDone calls included, with live-status
\* connections that do not read.
NextEvents ==
    \/ Next
    \/ \E w \in Workers : VariantFinalStoreError(w)
    \/ \E m \in MediaIDs : Events(m)

SpecEvents == Init /\ [][NextEvents]_vars

\* ------------------------------------------- SSEHandler.Events, step by step
\* The statuses after which the handler only waits for the client to go.
TerminalStatuses == {"done", "failed"}

\* A request for an existing Media: h.mediaSvc.Get(id), the headers, and
\* sendAllEvents of the state that was read. A terminal Media leaves the
\* handler at <-r.Context().Done(); otherwise it goes on to Subscribe.
SSEGet(m) ==
    /\ up
    /\ sse.pc = "none"
    /\ m \in DOMAIN media
    /\ sse' = [sse EXCEPT !.shown = media[m].status,
                          !.pc = IF media[m].status \in TerminalStatuses
                                 THEN "wait" ELSE "subscribe"]
    /\ UNCHANGED <<pipelineVars, busVars, sel, lk, limiter>>

\* ch := h.eventBus.Subscribe(id), some time after the state was read.
SSESubscribe(m) ==
    /\ up
    /\ sse.pc = "subscribe"
    /\ Len(chans) + 1 \in Connections
    /\ chans' = Append(chans, NewChan(m, FALSE))
    /\ subscribers' = SubscribeChan(subscribers, m, Len(chans) + 1)
    /\ sse' = [sse EXCEPT !.pc = "loop", !.ch = Len(chans) + 1]
    /\ UNCHANGED <<pipelineVars, pubCount, sel, lk, limiter>>

\* The select takes an event from the channel. (The client stays connected:
\* ctx.Done() is never ready; a keep-alive changes nothing.)
SSEReceive ==
    /\ up
    /\ sse.pc = "loop"
    /\ chans[sse.ch].buf # <<>>
    /\ chans' = [chans EXCEPT ![sse.ch] = [@ EXCEPT !.buf = Tail(@)]]
    /\ sse' = [sse EXCEPT !.pc = "refetch", !.event = Head(chans[sse.ch].buf).status]
    /\ UNCHANGED <<pipelineVars, subscribers, pubCount, sel, lk, limiter>>

\* media, err := h.mediaSvc.Get(id); sendAllEvents(w, media); after an event
\* with a terminal status the handler waits at <-ctx.Done().
SSERefetch(m) ==
    /\ up
    /\ sse.pc = "refetch"
    /\ sse' = [sse EXCEPT !.shown = media[m].status, !.event = "",
                          !.pc = IF sse.event \in TerminalStatuses THEN "wait" ELSE "loop"]
    /\ UNCHANGED <<pipelineVars, busVars, sel, lk, limiter>>

SSEStep(m) == SSEGet(m) \/ SSESubscribe(m) \/ SSEReceive \/ SSERefetch(m)

NextSSE ==
    \/ Next
    \/ SSEStep(1)

\* The pipeline and one live-update connection for media 1, every goroutine
\* scheduled again and again: the workers, the handler that runs Upload, main
\* up to Start, and the Events handler.
SpecSSE ==
    /\ Init /\ [][NextSSE]_vars
    /\ \A w \in Workers : WF_vars(WorkerStep(w))
    /\ WF_vars(UploadNoCodec \/ UploadSaveVariant \/ UploadEnqueue)
    /\ WF_vars(Start)
    /\ WF_vars(SSEStep(1))

\* The pipeline with jobs of the other kinds in the queue and live-status
\* connections on the bus, for the uploads that name no codec (a video, which
\* gets its H264 job, and an audio file, which is done at once).
DirectStep(w) ==
    \/ UnknownKind(w)
    \/ HandleGet(w)
    \/ ThumbnailOk(w)
    \/ ProbeOk(w)
    \/ ToolFail(w)
    \/ HandleUpdateDone(w)

NextJobs ==
    \/ Start
    \/ \E req \in {r \in UploadRequests : r.codecs = <<>>} : UploadSave(req)
    \/ UploadNoCodec
    \/ UploadSaveVariant
    \/ UploadEnqueue
    \/ \E type \in {JobTypeThumbnail, JobTypeProbe, JobTypeOther} : EnqueueDirect(1, type)
    \/ Events(1)
    \/ \E w \in Workers : WorkerStep(w) \/ DirectStep(w)

SpecJobs == Init /\ [][NextJobs]_vars

\* ------------------------------------------- the JobQueue port, any caller
\* JobQueue.Complete(jobID) as the port offers it: q.queries.CompleteJob(ctx,
\* jobID), whatever the row's status.
CompleteCall(j) ==
    /\ up
    /\ j \in DOMAIN jobs
    /\ jobs' = CompleteJob(jobs, j)
    /\ UNCHANGED <<up, now, media, variants, wk, upl, crashes, storeErrs,
                   claimed, claimsTotal, recovered>>
    /\ UNCHANGED <<thumbFiles, sel, outcome, ctx, extVars, subscribers, chans, pubCount>>

\* JobQueue.Fail(jobID, errMsg) as the port offers it.
FailCall(j, msg) ==
    /\ up
    /\ j \in DOMAIN jobs
    /\ jobs' = FailJob(jobs, j, msg)
    /\ UNCHANGED <<up, now, media, variants, wk, upl, crashes, storeErrs,
                   claimed, claimsTotal, recovered>>
    /\ UNCHANGED <<thumbFiles, sel, outcome, ctx, extVars, subscribers, chans, pubCount>>

\* The pipeline, and beside it callers of the port that pass the id of any
\* job in the table.
NextQueue ==
    \/ Next
    \/ \E j \in DOMAIN jobs : CompleteCall(j)
    \/ \E j \in DOMAIN jobs : FailCall(j, ConvertError(CodecH264))

SpecQueue == Init /\ [][NextQueue]_vars

\* ------------------------------------------------- EventBus under its mutex
\* Mutant: Lock() is granted while Publish calls hold the read lock.
CanLockAlways(l) == TRUE

\* eb.mu.Lock() of Subscribe and Unsubscribe is granted when no Publish call
\* holds the read lock. (The holder of the write lock runs its whole body in
\* one step, so the lock is never seen held for writing.)
CanLock(l) == l.readers = {}

\* Subscribe and Unsubscribe, each one critical section under eb.mu.Lock().
LockedSubscribe(m) == CanLock(lk) /\ Subscribe(m)

LockedUnsubscribe(m, c) == CanLock(lk) /\ Unsubscribe(m, c)

\* Publish: eb.mu.RLock(), and the range loop evaluates the slice of mediaID.
PublishLock(p, m) ==
    /\ lk.pub[p].pc = "idle"
    /\ lk' = [lk EXCEPT !.readers = @ \cup {p},
                        !.pub[p] = [pc |-> "send", media |-> m, todo |-> subscribers[m]]]
    /\ UNCHANGED <<pipelineVars, sel, busVars, limiter, sse>>

\* Publish: one iteration, select { case ch <- event: default: }. A send on a
\* closed channel panics.
PublishSend(p) ==
    /\ lk.pub[p].pc = "send"
    /\ lk.pub[p].todo # <<>>
    /\ LET c == Head(lk.pub[p].todo)
       IN  /\ chans' = IF ~chans[c].closed /\ Len(chans[c].buf) < ChanCap
                       THEN [chans EXCEPT ![c].buf = Append(@, Event("processing", ""))]
                       ELSE chans
           /\ lk' = [lk EXCEPT !.pub[p].todo = Tail(@),
                               !.sentOnClosed = @ \/ chans[c].closed]
    /\ UNCHANGED <<pipelineVars, sel, subscribers, pubCount, limiter, sse>>

\* Publish: the loop is over, the deferred eb.mu.RUnlock() runs.
PublishUnlock(p) ==
    /\ lk.pub[p].pc = "send"
    /\ lk.pub[p].todo = <<>>
    /\ lk' = [lk EXCEPT !.readers = @ \ {p}, !.pub[p] = NoPublish]
    /\ UNCHANGED <<pipelineVars, sel, busVars, limiter, sse>>

\* Subscribers come and go while two callers publish for media 1 and 2.
NextLock ==
    \/ \E m \in MediaIDs : LockedSubscribe(m)
    \/ \E m \in MediaIDs, c \in Connections : LockedUnsubscribe(m, c)
    \/ \E p \in Workers, m \in MediaIDs : PublishLock(p, m)
    \/ \E p \in Workers : PublishSend(p)
    \/ \E p \in Workers : PublishUnlock(p)
    \/ \E c \in Connections : Receive(c)

SpecLock == Init /\ [][NextLock]_vars

\* ------------------------------------------------------ LoginRateLimiter
\* A limiter made with maxAttempts in 1..MaxAttempts and any two durations.
InitLimiter ==
    \E M \in 1..MaxAttempts, W \in Durations, B \in Durations :
       InitWith(NoCall, NewLoginRateLimiter(M, W, B))

\* Time passes.
LimiterTick ==
    /\ limiter.clock < MaxClock
    /\ limiter' = [limiter EXCEPT !.clock = @ + 1]
    /\ UNCHANGED <<pipelineVars, busVars, sel, lk, sse>>

\* Check(clientID), under r.mu.
Check(c) ==
    /\ LET res == CheckRecord(limiter, limiter.attempts[c], limiter.clock)
           h == limiter.calls[c]
       IN  limiter' = [limiter EXCEPT
               !.attempts[c] = res.rec,
               !.calls[c] = IF h.n = 0 THEN [n |-> 1, first |-> limiter.clock]
                            ELSE [h EXCEPT !.n = IF @ > limiter.maxAttempts + 1 THEN @ ELSE @ + 1],
               !.last = [client |-> c, allowed |-> res.allowed, remaining |-> res.remaining]]
    /\ UNCHANGED <<pipelineVars, busVars, sel, lk, sse>>

\* Reset(clientID): delete(r.attempts, clientID).
Reset(c) ==
    /\ limiter.attempts[c].exists
    /\ limiter' = [limiter EXCEPT !.attempts[c] = NoRecord, !.calls[c] = NoCalls,
                                  !.last = NoAnswer]
    /\ UNCHANGED <<pipelineVars, busVars, sel, lk, sse>>

\* cleanup, one round of its ticker: the records that are old and not
\* blocked are deleted.
Cleanup ==
    /\ LET old == {c \in Clients :
                     /\ limiter.attempts[c].exists
                     /\ limiter.clock - limiter.attempts[c].lastAttempt > limiter.windowDuration * 2
                     /\ limiter.clock > limiter.attempts[c].blockedUntil}
       IN  /\ old # {}
           /\ limiter' = [limiter EXCEPT
                  !.attempts = [c \in Clients |-> IF c \in old THEN NoRecord ELSE @[c]],
                  !.calls = [c \in Clients |-> IF c \in old THEN NoCalls ELSE @[c]],
                  !.last = NoAnswer]
    /\ UNCHANGED <<pipelineVars, busVars, sel, lk, sse>>

NextLimiter ==
    \/ LimiterTick
    \/ \E c \in Clients : Check(c)
    \/ \E c \in Clients : Reset(c)
    \/ Cleanup

SpecLimiter == InitLimiter /\ [][NextLimiter]_vars

\* ------------------------------------------- LoginRateLimiter under r.mu
\* Mutant: r.mu.Lock() is granted while another goroutine holds the mutex.
MuFreeAlways(l) == TRUE

\* r.mu.Lock() is granted when no goroutine holds r.mu.
MuFree(l) == l.mu = 0

\* Check, r.mu.Lock(): goroutine g enters the critical section for client c.
CheckLock(g, c) ==
    /\ limiter.gor[g].pc = "idle"
    /\ MuFree(limiter)
    /\ limiter' = [limiter EXCEPT !.mu = g,
                                  !.gor[g] = [pc |-> "read", client |-> c, rec |-> NoRecord]]
    /\ UNCHANGED <<pipelineVars, busVars, sel, lk, sse>>

\* Check: record, exists := r.attempts[clientID]; the fields of the record
\* are read.
CheckRead(g) ==
    /\ limiter.gor[g].pc = "read"
    /\ limiter' = [limiter EXCEPT !.gor[g].pc = "write",
                                  !.gor[g].rec = limiter.attempts[limiter.gor[g].client]]
    /\ UNCHANGED <<pipelineVars, busVars, sel, lk, sse>>

\* Check: the record is written (Count++, LastAttempt, BlockedUntil) and the
\* answer is returned; the deferred r.mu.Unlock() runs.
CheckWrite(g) ==
    /\ limiter.gor[g].pc = "write"
    /\ LET c == limiter.gor[g].client
           res == CheckRecord(limiter, limiter.gor[g].rec, limiter.clock)
           h == limiter.calls[c]
       IN  limiter' = [limiter EXCEPT
               !.attempts[c] = res.rec,
               !.calls[c] = IF h.n = 0 THEN [n |-> 1, first |-> limiter.clock]
                            ELSE [h EXCEPT !.n = IF @ > limiter.maxAttempts + 1 THEN @ ELSE @ + 1],
               !.last = [client |-> c, allowed |-> res.allowed, remaining |-> res.remaining],
               !.mu = IF @ = g THEN 0 ELSE @,
               !.gor[g] = IdleCheck]
    /\ UNCHANGED <<pipelineVars, busVars, sel, lk, sse>>

\* Reset(clientID), under r.mu.
LockedReset(c) == MuFree(limiter) /\ Reset(c)

\* Two request handlers call Check for any client while time passes.
NextLimiterLock ==
    \/ LimiterTick
    \/ \E g \in Goroutines, c \in Clients : CheckLock(g, c)
    \/ \E g \in Goroutines : CheckRead(g)
    \/ \E g \in Goroutines : CheckWrite(g)
    \/ \E c \in Clients : LockedReset(c)

SpecLimiterLock == InitLimiter /\ [][NextLimiterLock]_vars

TypeOK ==
    /\ up \in BOOLEAN
    /\ now \in 1..MaxTime
    /\ Len(claimed) = Len(jobs)
    /\ Len(claimsTotal) = Len(jobs)

\* ================================================================ claims

\* C1 At-most-one-claimant: between two ResetStalled() no job is returned by
\* more than one Claim() call, no two workers hold the same job, and a job
\* returned by Claim() was pending immediately before that call.
AtMostOneClaimant ==
    /\ [](/\ \A j \in DOMAIN claimed : claimed[j] <= 1
          /\ \A w1, w2 \in Workers :
                (w1 # w2 /\ wk[w1].job # 0) => wk[w1].job # wk[w2].job)
    /\ [][\A w \in Workers :
             (wk[w].pc = "idle" /\ wk'[w].pc = "hc_get")
                 => jobs[wk'[w].job].status = "pending"]_vars

\* C1 witness: both workers hold a job, each returned by one Claim().
TwoClaimants ==
    \E w1, w2 \in Workers :
        /\ w1 # w2 /\ wk[w1].job # 0 /\ wk[w2].job # 0
        /\ claimed[wk[w1].job] = 1 /\ claimed[wk[w2].job] = 1

\* C2 Aggregate correctness: once Upload has returned for a Media with
\* variants and each of its convert jobs is done or failed with no worker
\* still handling one, the Media is done iff some variant is done and failed
\* iff every variant is failed.
AggregateCorrectness ==
    \A m \in DOMAIN media :
        LET vs == Snapshot(m)
            js == {j \in DOMAIN jobs : jobs[j].media = m /\ jobs[j].type = JobTypeConvert}
        IN  ( /\ DOMAIN vs # {}
              /\ upl.media # m
              /\ \A j \in js : jobs[j].status \in {"done", "failed"}
              /\ \A w \in Workers : wk[w].job \notin js )
            => /\ media[m].status = "done" <=> \E v \in DOMAIN vs : vs[v].status = "done"
               /\ media[m].status = "failed" <=> \A v \in DOMAIN vs : vs[v].status = "failed"

\* C3 Isolation: a Media with one AV1 and one H264 variant whose AV1 job
\* ended failed and whose H264 job ended done is done with the metadata of
\* the H264 variant; the AV1 variant is failed, the H264 variant is done with
\* an empty error message, and the Media carries no error message.
Isolation ==
    \A m \in DOMAIN media :
        LET vs == Snapshot(m)
            js == {j \in DOMAIN jobs : jobs[j].media = m /\ jobs[j].type = JobTypeConvert}
        IN  ( /\ upl.media # m
              /\ Cardinality(DOMAIN vs) = 2
              /\ {vs[v].codec : v \in DOMAIN vs} = {CodecAV1, CodecH264}
              /\ \A w \in Workers : wk[w].job \notin js
              /\ \E j \in js : jobs[j].codec = CodecAV1 /\ jobs[j].status = "failed"
              /\ \E j \in js : jobs[j].codec = CodecH264 /\ jobs[j].status = "done" )
            => \E a, h \in DOMAIN vs :
                  /\ vs[a].codec = CodecAV1 /\ vs[a].status = "failed"
                  /\ vs[h].codec = CodecH264 /\ vs[h].status = "done" /\ vs[h].err = ""
                  /\ media[m].status = "done"
                  /\ media[m].path = vs[h].path /\ media[m].codec = CodecH264
                  /\ media[m].width = vs[h].width /\ media[m].height = vs[h].height
                  /\ media[m].size = vs[h].size
                  /\ media[m].err = ""

\* C4 Job lifecycle: every status change of a job is pending->running by the
\* Claim() that returns it, running->done by Complete, running->failed by
\* Fail or running->pending by ResetStalled; the attempt count is the number
\* of Claim() calls that returned the job and changes in no other step.
JobLifecycle ==
    /\ [](\A j \in DOMAIN jobs : jobs[j].attempts = claimsTotal[j])
    /\ [][\A j \in DOMAIN jobs :
             LET a == jobs[j].status
                 b == jobs'[j].status
                 returned == \E w \in Workers :
                                wk[w].pc = "idle" /\ wk'[w].pc = "hc_get" /\ wk'[w].job = j
             IN  /\ a # b =>
                      \/ a = "pending" /\ b = "running" /\ returned
                      \/ /\ a = "running" /\ b = "done"
                         /\ \E w \in Workers : wk[w].pc = "complete" /\ wk[w].job = j
                      \/ /\ a = "running" /\ b = "failed"
                         /\ \E w \in Workers : wk[w].pc = "fail" /\ wk[w].job = j
                      \/ a = "running" /\ b = "pending" /\ ~up /\ up'
                 /\ returned => jobs'[j].attempts = jobs[j].attempts + 1
                 /\ ~returned => jobs'[j].attempts = jobs[j].attempts]_vars

\* C4 witness: a job claimed twice (once before, once after a ResetStalled)
\* that has reached done or failed.
JobReclaimedAndFinished ==
    \E j \in DOMAIN jobs : jobs[j].attempts = 2 /\ jobs[j].status \in {"done", "failed"}

\* C5 Variant monotonicity: a variant never goes back from processing to
\* pending, and the status, path and error message of a done or failed
\* variant never change.
VariantMonotone ==
    [][\A v \in DOMAIN variants :
          /\ variants[v].status \in {"done", "failed"}
                => /\ variants'[v].status = variants[v].status
                   /\ variants'[v].path = variants[v].path
                   /\ variants'[v].err = variants[v].err
          /\ variants[v].status = "processing" => variants'[v].status # "pending"]_vars

\* C6 Media terminal states are absorbing: a Media that is done or failed
\* keeps that status.
MediaTerminalAbsorbing ==
    [][\A m \in DOMAIN media :
          media[m].status \in {"done", "failed"}
              => media'[m].status = media[m].status]_vars

ResetStalledFrame ==
    [][(~up /\ up') =>
          /\ Len(jobs') = Len(jobs)
          /\ \A j \in DOMAIN jobs :
                /\ jobs[j].status = "running"
                      => jobs'[j].status = "pending" /\ jobs'[j].started = NULL
                /\ jobs[j].status # "running"
                      => jobs'[j].status = jobs[j].status /\ jobs'[j].started = jobs[j].started
                /\ jobs'[j].attempts = jobs[j].attempts
                /\ jobs'[j].err = jobs[j].err
                /\ jobs'[j].created = jobs[j].created
                /\ jobs'[j].completed = jobs[j].completed
                /\ jobs'[j].media = jobs[j].media
                /\ jobs'[j].type = jobs[j].type
                /\ jobs'[j].codec = jobs[j].codec
          /\ media' = media
          /\ variants' = variants]_vars

\* C8 witness: after a restart a job that was running is pending with its
\* start time cleared and its attempt kept, next to a job that stayed failed
\* or done.
ResetRecoveredJob ==
    /\ up
    /\ \E j \in recovered :
          jobs[j].status = "pending" /\ jobs[j].started = NULL /\ jobs[j].attempts = 1
    /\ \E k \in DOMAIN jobs : jobs[k].status \in {"done", "failed"} /\ jobs[k].started # NULL

\* C9 Recovery idempotence: ResetStalled() makes every running job pending;
\* such a job stays pending until the one Claim() that returns it and is
\* returned by no second Claim(); a second ResetStalled() right after the
\* first would change no job.
RecoveryIdempotence ==
    /\ [](\A j \in recovered :
             \/ claimed[j] = 0 /\ jobs[j].status = "pending"
             \/ claimed[j] = 1 /\ jobs[j].status # "pending")
    /\ [][(~up /\ up') =>
             /\ \A j \in DOMAIN jobs :
                   jobs[j].status = "running" => jobs'[j].status = "pending"
             /\ \A j \in DOMAIN jobs' :
                   IF jobs'[j].status = "running"
                   THEN FALSE
                   ELSE ResetStalledJobs(jobs')[j] = jobs'[j]]_vars

\* C9 witness: a job that was running at the reset has been claimed again,
\* once.
RecoveredJobReclaimed ==
    \E j \in recovered : claimed[j] = 1 /\ jobs[j].attempts = 2 /\ jobs[j].status = "running"

\* C10 Claim order is creation-order FIFO: a Claim() never returns a job
\* while a job inserted before it is pending.
ClaimFIFO ==
    [][\A w \in Workers :
          (wk[w].pc = "idle" /\ wk'[w].pc = "hc_get")
              => \A k \in DOMAIN jobs :
                    jobs[k].status = "pending" => wk'[w].job <= k]_vars

\* C10 witness: the first job has been claimed while the job inserted after
\* it was pending, and that one is still pending.
FirstClaimedSecondPending ==
    /\ Len(jobs) >= 2
    /\ jobs[1].status = "running" /\ jobs[1].attempts = 1
    /\ jobs[2].status = "pending" /\ jobs[2].attempts = 0

\* C11 Start() resets once, before any worker claims: while the process runs
\* and no Claim() of this run has returned a job, no job is running, so the
\* first Claim() of a run meets no job left running by the previous run, and
\* no reset happens after the workers were started (a running job never goes
\* back to pending while the process runs).
ResetBeforeFirstClaim ==
    /\ []((up /\ \A j \in DOMAIN claimed : claimed[j] = 0)
              => \A j \in DOMAIN jobs : jobs[j].status # "running")
    /\ [][\A w \in Workers :
             ( /\ wk[w].pc = "idle" /\ wk'[w].pc = "hc_get"
               /\ \A j \in DOMAIN claimed : claimed[j] = 0 )
                 => \A j \in DOMAIN jobs : jobs[j].status # "running"]_vars
    /\ [][(up /\ up') =>
             \A j \in DOMAIN jobs :
                jobs[j].status = "running" => jobs'[j].status # "pending"]_vars

\* C11 witness: after a crash that left a job running, the new run has been
\* started and its first Claim() has returned.
ResetThenFirstClaim ==
    /\ up /\ crashes = 1 /\ recovered # {}
    /\ Cardinality({j \in DOMAIN claimed : claimed[j] = 1}) = 1

\* C12 End-to-end: a video Media whose convert jobs are AV1 then H264, both
\* ended done with no worker still handling one, is done with codec av1 and
\* the path, size and dimensions of its AV1 variant, and both variants are
\* done with non-empty paths.
EndToEnd ==
    \A m \in DOMAIN media :
        LET vs == Snapshot(m)
            js == {j \in DOMAIN jobs : jobs[j].media = m /\ jobs[j].type = JobTypeConvert}
        IN  ( /\ media[m].type = MediaTypeVideo
              /\ upl.media # m
              /\ Cardinality(js) = 2
              /\ \E a, h \in js : /\ a < h
                                  /\ jobs[a].codec = CodecAV1 /\ jobs[h].codec = CodecH264
              /\ \A j \in js : jobs[j].status = "done"
              /\ \A w \in Workers : wk[w].job \notin js )
            => /\ media[m].status = "done"
               /\ media[m].codec = CodecAV1
               /\ \A v \in DOMAIN vs : vs[v].status = "done" /\ vs[v].path # <<>>
               /\ \E a \in DOMAIN vs :
                     /\ vs[a].codec = CodecAV1
                     /\ media[m].path = vs[a].path /\ media[m].size = vs[a].size
                     /\ media[m].width = vs[a].width /\ media[m].height = vs[a].height

\* C12 witness: both jobs of an AV1+H264 upload are done, the workers are back
\* in their polling loop and the Media is done.
BothJobsDone ==
    /\ Len(jobs) = 2 /\ upl.pc = "idle"
    /\ jobs[1].codec = CodecAV1 /\ jobs[2].codec = CodecH264
    /\ jobs[1].status = "done" /\ jobs[2].status = "done"
    /\ \A w \in Workers : wk[w].pc = "idle"
    /\ media[1].status = "done"

\* C13 Thumbnail attached: a video Media finalized as done by a worker, for
\* which the converter has generated the thumbnail, has a non-empty stored
\* ThumbPath.
ThumbnailAttached ==
    \A m \in DOMAIN media :
        ( /\ media[m].type = MediaTypeVideo
          /\ media[m].status = "done"
          /\ m \in thumbFiles )
            => media[m].thumb # ""

\* C14 as stated: BestVariant() returns a done variant whose codec comes
\* first in the preference order AV1 > H264 > Opus among the done variants,
\* whatever the order of the list, and nothing when no variant is done.
BestVariantByPreference ==
    sel.pc = "best" =>
        LET vs == sel.variants
            done == {i \in 1..Len(vs) : vs[i].status = "done"}
        IN  IF done = {} THEN sel.result = 0
            ELSE /\ sel.result \in done
                 /\ \A i \in done :
                       codecPriority(vs[sel.result].codec) <= codecPriority(vs[i].codec)

\* C14 amended: BestVariant() returns the first variant of the list whose
\* status is done, whatever its codec, and nothing when no variant is done.
BestVariantFirstInList ==
    sel.pc = "best" =>
        LET vs == sel.variants
            done == {i \in 1..Len(vs) : vs[i].status = "done"}
        IN  IF done = {} THEN sel.result = 0
            ELSE /\ sel.result \in done
                 /\ \A i \in done : sel.result <= i

\* C14 witness: BestVariant() on the list [H264 done, AV1 done] has returned
\* the H264 variant.
BestOfH264ThenAV1 ==
    /\ sel.pc = "best"
    /\ sel.variants = <<[codec |-> CodecH264, status |-> "done"],
                        [codec |-> CodecAV1, status |-> "done"]>>
    /\ sel.result = 1

\* The accept entries of an Accept value that match the variant at position
\* i of the list vs (used to state C15).
MatchingEntries(vs, accept, i) ==
    {k \in 1..Len(accept) :
        /\ ~accept[k].blank
        /\ LET r == accept[k].mime
               mime == codecMIME(vs[i].codec)
           IN  r = <<"*", "*">> \/ r = mime \/ (r[2] = "*" /\ r[1] = mime[1])}

\* The highest q among the matching entries.
MatchQ(vs, accept, i) ==
    CHOOSE q \in {PartQ(accept[k]) : k \in MatchingEntries(vs, accept, i)} :
        \A k \in MatchingEntries(vs, accept, i) : PartQ(accept[k]) <= q

EmptyAcceptByPreference ==
    (sel.pc = "accept" /\ IsEmptyAccept(sel.accept)) =>
        LET vs == sel.variants
            done == {i \in 1..Len(vs) : vs[i].status = "done"}
        IN  /\ sel.result = BestVariant(vs)
            /\ IF done = {} THEN sel.result = 0
               ELSE /\ sel.result \in done
                    /\ \A i \in done :
                          codecPriority(vs[sel.result].codec) <= codecPriority(vs[i].codec)

\* C16 amended: for an empty (or white-space) Accept value
\* BestVariantForAccept returns what BestVariant() returns, the first done
\* variant of the list, for every variant list.
EmptyAcceptFirstInList ==
    (sel.pc = "accept" /\ IsEmptyAccept(sel.accept)) =>
        LET vs == sel.variants
            done == {i \in 1..Len(vs) : vs[i].status = "done"}
        IN  /\ sel.result = BestVariant(vs)
            /\ IF done = {} THEN sel.result = 0
               ELSE sel.result \in done /\ \A i \in done : sel.result <= i

\* C16 witness: the empty Accept value on [H264 done, AV1 done] has returned
\* the H264 variant.
EmptyAcceptOfH264ThenAV1 ==
    /\ sel.pc = "accept"
    /\ IsEmptyAccept(sel.accept)
    /\ sel.variants = <<[codec |-> CodecH264, status |-> "done"],
                        [codec |-> CodecAV1, status |-> "done"]>>
    /\ sel.result = 1

\* C17 Failure message: when processJob has failed a convert job carrying a
\* codec with message m, the job is failed with message m, and failVariant
\* marks the variant of that (media, codec) failed with the same message m
\* and changes no other variant.
FailureMessageOnVariant ==
    /\ [][\A w \in Workers :
             (wk[w].pc = "fail" /\ wk'[w].pc = "fv_start")
                 => /\ jobs'[wk[w].job].status = "failed"
                    /\ jobs'[wk[w].job].err = wk[w].err]_vars
    /\ [][\A w \in Workers :
             (wk[w].pc = "fv_start" /\ wk'[w].pc = "fv_refetch")
                 => LET v == wk'[w].vid
                    IN  /\ variants[v].media = wk[w].jobrow.media
                        /\ variants[v].codec = wk[w].jobrow.codec
                        /\ variants'[v].status = "failed"
                        /\ variants'[v].err = wk[w].err
                        /\ variants'[v].err = jobs[wk[w].job].err
                        /\ \A u \in DOMAIN variants : u # v => variants'[u] = variants[u]]_vars

\* C18 Publish never blocks: Publish can be called and returns whatever the
\* state of the buffers; it appends the event to the buffer of every channel
\* of the media id that has room and leaves a full buffer (16 events), and
\* every other channel, as it is.
PublishNeverBlocks ==
    /\ [](pubCount[1] < MaxPublish => ENABLED PublishEvent(1))
    /\ [][pubCount'[1] = pubCount[1] + 1 =>
             \A c \in DOMAIN chans :
                IF IndexOf(subscribers[1], c) # 0 /\ Len(chans[c].buf) < ChanCap
                THEN /\ chans'[c].buf =
                            Append(chans[c].buf, Event("processing", <<1, pubCount'[1]>>))
                     /\ chans'[c].closed = chans[c].closed
                ELSE chans'[c] = chans[c]]_vars

\* C18 witness: the 17th event was dropped for a channel whose buffer holds
\* the first 16, unread, and delivered to the other channel of the media.
DroppedForOneDeliveredToOther ==
    \E c, d \in DOMAIN chans :
        /\ c # d
        /\ IndexOf(subscribers[1], c) # 0 /\ IndexOf(subscribers[1], d) # 0
        /\ Len(chans[c].buf) = ChanCap /\ chans[c].got = <<>>
        /\ chans[c].buf[ChanCap].message = <<1, ChanCap>>
        /\ pubCount[1] = ChanCap + 1
        /\ chans[d].buf # <<>>
        /\ chans[d].buf[Len(chans[d].buf)].message = <<1, ChanCap + 1>>

\* C19 as stated: a channel subscribed before any state change of its Media
\* and not read holds exactly one status event when the Media's one convert
\* job has been processed to completion.
ExactlyOneEvent ==
    \A c \in DOMAIN chans :
        LET m == chans[c].media
            js == {j \in DOMAIN jobs : jobs[j].media = m /\ jobs[j].type = JobTypeConvert}
        IN  ( /\ chans[c].fresh /\ chans[c].got = <<>>
              /\ upl.pc = "idle"
              /\ Cardinality(js) = 1
              /\ \A j \in js : jobs[j].status \in {"done", "failed"}
              /\ \A w \in Workers : wk[w].job \notin js )
            => /\ Len(chans[c].buf) = 1
               /\ chans[c].buf[1].type = "status"

\* C19 amended: when the job's conversion was run, such a channel holds the
\* three status events of the job: processing (the Media left pending),
\* processing (the variant was started) and the final one, done when the job
\* is done, failed ("all conversions failed") when it failed.
ThreeEventsOfOneJob ==
    \A c \in DOMAIN chans :
        LET m == chans[c].media
            js == {j \in DOMAIN jobs : jobs[j].media = m /\ jobs[j].type = JobTypeConvert}
        IN  ( /\ chans[c].fresh /\ chans[c].got = <<>>
              /\ upl.pc = "idle"
              /\ Cardinality(js) = 1
              /\ \A j \in js : jobs[j].status \in {"done", "failed"}
              /\ \A w \in Workers : wk[w].job \notin js )
            => \A j \in js :
                  chans[c].buf =
                      <<Event("processing", ""), Event("processing", ""),
                        IF jobs[j].status = "done" THEN Event("done", "")
                        ELSE Event("failed", AllFailedMessage)>>

\* C19 witness: the one convert job of a Media is done and a channel
\* subscribed before it was claimed holds three events, unread.
FreshChannelAfterOneJob ==
    \E c \in DOMAIN chans :
        /\ chans[c].fresh /\ chans[c].media = 1 /\ chans[c].got = <<>>
        /\ Len(jobs) = 1 /\ upl.pc = "idle" /\ jobs[1].status = "done"
        /\ \A w \in Workers : wk[w].pc = "idle"
        /\ Len(chans[c].buf) = 3

\* C20 Event scoping and order: a Publish for media m changes only channels
\* registered under m at that moment and adds at most one event to each; the
\* events a channel has delivered and holds were all published for the media
\* id it was subscribed to, each appears once, and they are in the order in
\* which they were published.
EventScopingAndOrder ==
    /\ [](\A c \in DOMAIN chans :
             LET all == chans[c].got \o chans[c].buf
             IN  /\ \A i \in 1..Len(all) :
                       /\ all[i].message[1] = chans[c].media
                       /\ all[i].message[2] \in 1..pubCount[chans[c].media]
                 /\ \A i, k \in 1..Len(all) : i < k => all[i].message[2] < all[k].message[2])
    /\ [][pubCount'[1] = pubCount[1] + 1 =>
             \A c \in DOMAIN chans :
                /\ IndexOf(subscribers[1], c) = 0 => chans'[c] = chans[c]
                /\ Len(chans'[c].buf) <= Len(chans[c].buf) + 1
                /\ chans'[c].got = chans[c].got]_vars

\* C20 witness: events were published for media 1 while one channel was
\* subscribed to media 1 and one to media 2: the first has delivered one
\* event and holds more, the second has received nothing.
OtherMediaReceivesNothing ==
    \E c, d \in DOMAIN chans :
        /\ IndexOf(subscribers[1], c) # 0 /\ IndexOf(subscribers[2], d) # 0
        /\ Len(chans[c].got) = 1 /\ Len(chans[c].buf) >= 2
        /\ chans[d].got = <<>> /\ chans[d].buf = <<>>
        /\ pubCount[1] >= 3

\* C21 Unsubscribe(mediaID, ch) removes ch from the subscriber list of the
\* media and closes it; however Unsubscribe interleaves with concurrent
\* Publish calls, no event is sent on a closed channel; after Unsubscribe
\* has returned no Publish delivers to ch: a closed channel is in no
\* subscriber list, no Publish call has it left to visit, and its buffer
\* never grows.
ClosedChannelsLeftAlone ==
    /\ ~lk.sentOnClosed
    /\ \A c \in DOMAIN chans :
          chans[c].closed =>
             /\ \A m \in MediaIDs : IndexOf(subscribers[m], c) = 0
             /\ \A p \in Workers : IndexOf(lk.pub[p].todo, c) = 0

UnsubscribeRemovesAndCloses ==
    \A c \in DOMAIN chans :
       /\ (chans[c].closed => /\ chans'[c].closed
                              /\ Len(chans'[c].buf) <= Len(chans[c].buf))
       /\ (~chans[c].closed /\ chans'[c].closed =>
              /\ IndexOf(subscribers[chans[c].media], c) # 0
              /\ IndexOf(subscribers'[chans[c].media], c) = 0)

UnsubscribeVsPublish == []ClosedChannelsLeftAlone /\ [][UnsubscribeRemovesAndCloses]_vars

\* C21 witness: a channel that received an event has been unsubscribed while
\* its neighbour stays subscribed, and a Publish call for their media is in
\* its loop.
PublishAfterUnsubscribe ==
    /\ Len(chans) = 2
    /\ chans[1].closed /\ chans[1].buf # <<>>
    /\ ~chans[2].closed /\ chans[2].media = chans[1].media
    /\ \E p \in Workers : lk.pub[p].pc = "send" /\ lk.pub[p].media = chans[1].media
                          /\ lk.pub[p].todo = <<2>>

\* C22 After the context is cancelled every worker that has claimed a job
\* finishes handling it and calls Complete or Fail before it exits: a job in
\* status running is held by a worker that is inside its handler; every
\* worker loop eventually exits, and then no job is left running.
RunningJobsAreHeld ==
    \A j \in DOMAIN jobs :
       jobs[j].status = "running" =>
          \E w \in Workers : wk[w].job = j /\ wk[w].pc \notin {"idle", "polling", "exited", "stopped"}

AllWorkersExited == \A w \in Workers : wk[w].pc = "exited"

NoRunningJobAtExit ==
    ctx = "exited" => \A j \in DOMAIN jobs : jobs[j].status # "running"

\* C24 A worker loop never stops because of a job error (a Claim() error
\* changes nothing: the worker sleeps and polls again), and under fairness,
\* without cancellation or crash, every enqueued job is eventually claimed
\* and eventually done or failed.
WorkersKeepRunning == up => \A w \in Workers : wk[w].pc \notin {"stopped", "exited"}

EveryJobSettled ==
    \A j \in DOMAIN jobs : claimsTotal[j] >= 1 /\ jobs[j].status \in {"done", "failed"}

EveryJobEventuallySettled ==
    /\ []WorkersKeepRunning
    /\ [](jobs # <<>> => <>EveryJobSettled)

\* C24 witness: two jobs were enqueued, both have been claimed and have
\* failed, and both workers are polling again.
PollingAfterFailures ==
    /\ up
    /\ Len(jobs) = 2
    /\ \A k \in DOMAIN jobs : jobs[k].status = "failed" /\ claimsTotal[k] = 1
    /\ \A w \in Workers : wk[w].pc = "idle"

\* C25 Jobs are never retried: a job in status failed is not returned by
\* Claim() again and keeps its status, its error and its attempt count in
\* every step, the steps of a restart (ResetStalled) included.
FailedJobStep ==
    \A j \in DOMAIN jobs :
       jobs[j].status = "failed" =>
          /\ jobs'[j].status = "failed"
          /\ jobs'[j].attempts = jobs[j].attempts
          /\ claimsTotal'[j] = claimsTotal[j]
          /\ \A w \in Workers : wk'[w].job = j => wk[w].job = j

FailedJobsStayFailed == [][FailedJobStep]_vars

\* C25 witness: a job failed, the process crashed and was started again, and
\* a worker is polling while the failed job, claimed once, is still failed.
FailedJobAfterRestart ==
    /\ up /\ crashes = 1
    /\ \E j \in DOMAIN jobs :
          /\ jobs[j].status = "failed" /\ jobs[j].attempts = 1 /\ claimsTotal[j] = 1
          /\ \A k \in DOMAIN jobs : k # j => jobs[k].status = "done" /\ claimsTotal[k] = 2
    /\ Len(jobs) = 2
    /\ \A w \in Workers : wk[w].pc = "idle"

\* C26 At-least-once processing across crashes: when every job has been
\* claimed again after the last restart and is done or failed, the Media of
\* a job that a crash found pending or running has the aggregate status it
\* would have without the crash, given that every conversion of a job had
\* the same outcome each time it ran: done when some job converted its
\* codec, failed when none did.
Quiescent ==
    /\ up /\ upl.pc = "idle" /\ jobs # <<>>
    /\ \A w \in Workers : wk[w].pc = "idle"
    /\ \A j \in DOMAIN jobs : jobs[j].status \in {"done", "failed"}

AggregateOfOutcomes(m) ==
    IF \E j \in DOMAIN jobs : jobs[j].media = m /\ outcome[j].result = "ok"
    THEN "done" ELSE "failed"

IdempotentReprocessing ==
    /\ Quiescent
    /\ storeErrs = 0
    /\ \A j \in DOMAIN jobs : outcome[j].result \in {"ok", "fail"}
    => \A j \in DOMAIN jobs :
          outcome[j].crashed => media[jobs[j].media].status = AggregateOfOutcomes(jobs[j].media)

\* C27 A claimed job whose kind is not convert, thumbnail or probe ends
\* failed with the message that names its kind, and no step of the worker
\* that processes it changes a Media or a Variant or puts an Event on a
\* channel.
UnknownJobStep ==
    \A w \in Workers :
       /\ wk[w].job # 0
       /\ wk[w].jobrow.type \notin {JobTypeConvert, JobTypeThumbnail, JobTypeProbe}
       /\ wk'[w] # wk[w]
       => /\ media' = media
          /\ variants' = variants
          /\ chans' = chans
          /\ wk'[w].pc = "idle" =>
                /\ jobs'[wk[w].job].status = "failed"
                /\ jobs'[wk[w].job].err = "unknown job type: resize"

UnknownJobFails == [][UnknownJobStep]_vars

\* C27 witness: a job of kind resize has been claimed and has failed with
\* its message while a connection is subscribed to its pending Media.
UnknownJobFailed ==
    /\ \E j \in DOMAIN jobs :
          /\ jobs[j].type = JobTypeOther /\ claimsTotal[j] = 1
          /\ jobs[j].status = "failed" /\ jobs[j].err = "unknown job type: resize"
          /\ media[jobs[j].media].status = "pending"
          /\ variants # <<>>
    /\ subscribers[1] # <<>>
    /\ \A w \in Workers : wk[w].pc = "idle"

\* C28 There is at most one Variant per (media id, codec) pair, whatever
\* list of codecs Upload is given.
OneVariantPerCodec ==
    \A v1, v2 \in DOMAIN variants :
       variants[v1].media = variants[v2].media /\ variants[v1].codec = variants[v2].codec
       => v1 = v2

\* C29 The UpdateDone of a thumbnail job changes only the thumbnail path of
\* its Media and that of a probe job only its width and height: status,
\* converted path, codec and file size stay as they were persisted.
ThumbnailProbeStep ==
    \A w \in Workers :
       wk[w].pc = "update_done" /\ wk'[w].pc = "complete" =>
          LET id == wk[w].jobrow.media
          IN  /\ media'[id].status = media[id].status
              /\ media'[id].path = media[id].path
              /\ media'[id].codec = media[id].codec
              /\ media'[id].size = media[id].size
              /\ wk[w].jobrow.type = JobTypeThumbnail =>
                    media'[id].width = media[id].width /\ media'[id].height = media[id].height
              /\ wk[w].jobrow.type = JobTypeProbe => media'[id].thumb = media[id].thumb

CheckAnswer ==
    LET c == limiter.last.client
        h == limiter.calls[c]
    IN  c # 0 /\ limiter.clock - h.first <= limiter.windowDuration =>
           /\ h.n <= limiter.maxAttempts =>
                 limiter.last.allowed /\ limiter.last.remaining = 0
           /\ h.n = limiter.maxAttempts + 1 =>
                 ~limiter.last.allowed /\ limiter.last.remaining = limiter.blockDuration

CheckStep ==
    \A c \in Clients :
       limiter'.last.client = c /\ limiter'.last # limiter.last =>
          \A d \in Clients \ {c} : limiter'.attempts[d] = limiter.attempts[d]

RateLimit == []CheckAnswer /\ [][CheckStep]_vars

\* C30 witness: with maxAttempts = 2, client 1 has been allowed twice and, at
\* the same reading of the clock, blocked at its third Check for
\* blockDuration, and client 2, checked after that, was allowed.
BlockedAtThirdCheck ==
    /\ limiter.maxAttempts = 2
    /\ limiter.calls[1].n = 3 /\ limiter.calls[1].first = limiter.clock
    /\ limiter.attempts[1].blockedUntil = limiter.clock + limiter.blockDuration
    /\ limiter.last = [client |-> 2, allowed |-> TRUE, remaining |-> 0]

\* C31 Login rate limiter: a Check of a client that is blocked returns not
\* allowed with the time left until BlockedUntil, which is positive, at most
\* blockDuration and smaller the later the call, and leaves the record of
\* the client (count, last attempt, block) as it is.
Blocked(c) == limiter.attempts[c].exists /\ limiter.clock < limiter.attempts[c].blockedUntil

BlockedCheckStep ==
    \A c \in Clients :
       Blocked(c) /\ limiter'.last.client = c /\ limiter' # limiter
                  /\ limiter'.clock = limiter.clock =>
          /\ ~limiter'.last.allowed
          /\ limiter'.last.remaining = limiter.attempts[c].blockedUntil - limiter.clock
          /\ limiter'.last.remaining > 0
          /\ limiter'.last.remaining <= limiter.blockDuration
          /\ limiter'.attempts[c] = limiter.attempts[c]

BlockedStaysBlocked == [][BlockedCheckStep]_vars

\* C31 witness: with blockDuration = 2, client 1 was blocked, a tick passed
\* and its next Check was refused with 1 tick remaining.
RefusedWithLessRemaining ==
    /\ limiter.blockDuration = 2
    /\ Blocked(1)
    /\ limiter.attempts[1].blockedUntil = limiter.clock + 1
    /\ limiter.last = [client |-> 1, allowed |-> FALSE, remaining |-> 1]

\* C32 Login rate limiter: a block expires after blockDuration: the first
\* Check of a client at or after its BlockedUntil is allowed, for every
\* windowDuration and blockDuration; the first Check after Reset(client) is
\* allowed; and a Check made more than windowDuration after the previous
\* attempt counts from zero again.
IsCheckStep(c) ==
    /\ limiter'.last.client = c
    /\ limiter' # limiter
    /\ limiter'.clock = limiter.clock

ExpiryStep ==
    \A c \in Clients :
       IsCheckStep(c) =>
          LET r == limiter.attempts[c]
          IN  /\ r.exists /\ r.lastAttempt < r.blockedUntil /\ r.blockedUntil <= limiter.clock
                 => limiter'.last.allowed
              /\ ~r.exists => limiter'.last.allowed
              /\ r.exists /\ r.blockedUntil <= limiter.clock
                          /\ limiter.clock - r.lastAttempt > limiter.windowDuration
                 => limiter'.attempts[c].count = 1

BlockExpires == [][ExpiryStep]_vars

\* C33 Login rate limiter: concurrent Check calls for one client lose no
\* update: when no Check is under way, the Count of a client whose calls
\* since it had no record all fell within the window and were never blocked
\* equals the number of those calls.
NoLostUpdate ==
    \A c \in Clients :
       /\ \A g \in Goroutines : limiter.gor[g].pc = "idle"
       /\ limiter.attempts[c].exists
       /\ limiter.attempts[c].blockedUntil = 0
       /\ limiter.clock - limiter.calls[c].first <= limiter.windowDuration
       => limiter.attempts[c].count = limiter.calls[c].n

\* C33 witness: two Check calls for client 1, made at the same reading of
\* the clock and both allowed, are over and its Count is 2.
TwoChecksCounted ==
    /\ limiter.maxAttempts = 2
    /\ \A g \in Goroutines : limiter.gor[g].pc = "idle"
    /\ limiter.calls[1] = [n |-> 2, first |-> limiter.clock]
    /\ limiter.attempts[1].count = 2 /\ limiter.attempts[1].blockedUntil = 0

\* C34 For each Media the terminal status Event is the last one published:
\* in the events a connection has been sent (none is read or dropped), no
\* Event with status processing comes after one with status done or failed.
TerminalEventLast ==
    \A c \in DOMAIN chans :
       \A i, k \in 1..Len(chans[c].buf) :
          i < k /\ chans[c].buf[i].status \in {"done", "failed"}
          => chans[c].buf[k].status # "processing"

\* C35 Complete(jobID) and Fail(jobID, message) take effect only on a running
\* job: a job that is pending, done or failed and has status done or failed
\* after a step keeps its status, error message and completion time.
SettleStep ==
    \A j \in DOMAIN jobs :
       (jobs[j].status # "running" /\ jobs'[j].status \in {"done", "failed"})
       => /\ jobs'[j].status = jobs[j].status
          /\ jobs'[j].err = jobs[j].err
          /\ jobs'[j].completed = jobs[j].completed

JobVariantAgree ==
    \A j \in DOMAIN jobs :
       (jobs[j].type = JobTypeConvert /\ jobs[j].codec # "") =>
          \A v \in VariantsByMediaAndCodec(variants, jobs[j].media, jobs[j].codec) :
             /\ jobs[j].status = "done"
                => variants[v].status = "done" /\ variants[v].path # <<>>
             /\ (jobs[j].status = "failed" /\ \A w \in Workers : wk[w].job # j)
                => variants[v].status = "failed"

\* C37 After Upload has returned, every Variant persisted as pending has
\* exactly one convert job for its (media, codec) in the queue, also when a
\* SaveVariant or an Enqueue call of Upload returned an error.
PendingVariantHasOneJob ==
    (upl.pc = "idle" /\ media # <<>>) =>
       \A v \in DOMAIN variants :
          variants[v].status = "pending" =>
             Cardinality({j \in DOMAIN jobs :
                             /\ jobs[j].type = JobTypeConvert
                             /\ jobs[j].media = variants[v].media
                             /\ jobs[j].codec = variants[v].codec}) = 1

\* C38 A live-update connection opened while the Media is not terminal ends up
\* showing the terminal state: once the handler has read a non-terminal Media
\* and the Media is done or failed, the handler eventually sends the client a
\* done or failed state.
SSEShowsTerminal ==
    (sse.pc \in {"subscribe", "loop", "refetch"} /\ media[1].status \in TerminalStatuses)
    ~> (sse.shown \in TerminalStatuses)

\* C39 Unsubscribe affects only the given channel: a channel is closed only in
\* a step that also removes it from the slice of the media id it was
\* subscribed to, and removed only in a step that closes it; in such a step
\* every other channel stays as it is (open or not, buffered events) and
\* subscribed where it was; and a closed channel is subscribed nowhere, so
\* that an Unsubscribe for a wrong media id, or a second one, finds nothing.
IsSubscribed(subs, m, c) == IndexOf(subs[m], c) # 0

UnsubscribeStep ==
    \A c \in DOMAIN chans :
       LET closes == chans'[c].closed /\ ~chans[c].closed
           removes == \E m \in MediaIDs :
                         IsSubscribed(subscribers, m, c) /\ ~IsSubscribed(subscribers', m, c)
       IN  /\ closes <=> removes
           /\ closes =>
                 /\ chans'[c].buf = chans[c].buf
                 /\ \A d \in DOMAIN chans \ {c} :
                       /\ chans'[d] = chans[d]
                       /\ \A m \in MediaIDs :
                             IsSubscribed(subscribers', m, d) <=> IsSubscribed(subscribers, m, d)

UnsubscribeOnlyGivenChannel ==
    /\ [](\A c \in DOMAIN chans :
             chans[c].closed => \A m \in MediaIDs : ~IsSubscribed(subscribers, m, c))
    /\ [][UnsubscribeStep]_vars

\* C39 witness: of two channels subscribed to media 1, one has been
\* unsubscribed and closed; the other is still subscribed and open and holds
\* the events published to it.
OtherSubscriberIntact ==
    \E c, d \in DOMAIN chans :
       /\ c # d /\ chans[c].media = 1 /\ chans[d].media = 1
       /\ chans[c].closed /\ ~IsSubscribed(subscribers, 1, c)
       /\ ~chans[d].closed /\ IsSubscribed(subscribers, 1, d)
       /\ chans[d].buf # <<>>
       /\ Len(chans[d].buf) = pubCount[1]

====
